---------------------------- MODULE Spec2Model ----------------------------
(***************************************************************************)
(* Model of UUdonArrayUtilsLibrary (Source/UdonArrayUtils): the array      *)
(* nodes SortAnyArray, RandomSample, RemoveIf, RemoveRange, Fill and       *)
(* FillRange, together with the element references, the callback           *)
(* marshalling and the std::sort they are built on.                        *)
(*                                                                         *)
(* An array is a sequence of elements; one element is the value its bytes  *)
(* encode.  Indices are 0-based as in the source: At(a, i) is element i.   *)
(***************************************************************************)
EXTENDS Integers, Sequences, FiniteSets, TLC

\* ------------------------------------------------------------------------
\* Bounds of the model
\* ------------------------------------------------------------------------

\* longest array that is enumerated exhaustively
MaxLen == 3

\* largest element value of the enumerated arrays and of the fill values
MaxElem == 1

\* number of node calls in one run
MaxCalls == 2

\* ------------------------------------------------------------------------
\* Integer widths
\* ------------------------------------------------------------------------

\* std::make_unsigned_t<int32> is 32 bits wide; a value is kept as its two
\* 16-bit halves
UINT16_RANGE == 2 ^ 16

\* unsigned_num_t rest_samples = NumOfSamples: int32 to uint32 conversion,
\* modulo 2^32
ToUnsigned(n) == [hi |-> (n \div UINT16_RANGE) % UINT16_RANGE,
                  lo |-> n % UINT16_RANGE]

\* x < y of two uint32 values
UnsignedLess(x, y) == x.hi < y.hi \/ (x.hi = y.hi /\ x.lo < y.lo)

\* INDEX_NONE of the engine
INDEX_NONE == 0 - 1

\* ------------------------------------------------------------------------
\* Arrays (FScriptArrayHelper)
\* ------------------------------------------------------------------------

\* ArrayHelper.Num()
Num(a) == Len(a)

\* the element ArrayHelper.GetRawPtr(index) points at
At(a, index) == a[index + 1]

\* memcpy of one element to ArrayHelper.GetRawPtr(index)
Poke(a, index, bytes) == [a EXCEPT ![index + 1] = bytes]

\* ArrayHelper.RemoveValues(Index, Count): the tail shifts down
RemoveValues(a, Index, Count) ==
    SubSeq(a, 1, Index) \o SubSeq(a, Index + Count + 1, Len(a))

\* ------------------------------------------------------------------------
\* Callbacks: the UFunctions a caller can name on the Object
\* ------------------------------------------------------------------------

\* binary "should precede" functions defined on the Object
ComparisonFunctions == {"Less", "Greater", "HalfLess", "Never"}

\* unary predicates defined on the Object
Predicates == {"IsEven", "IsZero", "Always", "NeverTrue"}

\* further functions of the Object the searching nodes are called with: a
\* binary equality and the unary predicates "is odd" and "is one"
SearchFunctions == {"Equal", "IsOdd", "IsOne"}

\* a name no function of the Object has
MissingName == "Missing"

\* Object->FindFunction(Name): null when the Object has no such function
FindFunction(Name) ==
    IF Name \in ComparisonFunctions \cup Predicates \cup SearchFunctions
        THEN Name
        ELSE "nullptr"

\* Context.ProcessEvent(&Predicate, buffer): the function reads its
\* parameters from the buffer in order and its return value is what the
\* caller finds behind the last parameter
ProcessEvent(Function, buffer) ==
    CASE Function = "Less"      -> buffer[1] < buffer[2]
      [] Function = "Greater"   -> buffer[1] > buffer[2]
      [] Function = "HalfLess"  -> (buffer[1] \div 2) < (buffer[2] \div 2)
      [] Function = "Never"     -> FALSE
      [] Function = "IsEven"    -> buffer[1] % 2 = 0
      [] Function = "IsZero"    -> buffer[1] = 0
      [] Function = "Always"    -> TRUE
      [] Function = "NeverTrue" -> FALSE
      [] Function = "Equal"     -> buffer[1] = buffer[2]
      [] Function = "IsOdd"     -> buffer[1] % 2 = 1
      [] Function = "IsOne"     -> buffer[1] = 1

\* ------------------------------------------------------------------------
\* memory_transparent_reference
\* ------------------------------------------------------------------------

\* memory_transparent_reference(InTargetPtr, InElementProperty): a view of
\* element `index` of the array; it owns nothing (new_target_ptr is null)
ElementRef(index) == [target_ptr |-> index, new_target_ptr |-> <<>>]

\* the bytes target_ptr points at: the array element, or the scratch buffer
\* the reference allocated for itself
Target(a, ref) ==
    IF ref.new_target_ptr = <<>> THEN At(a, ref.target_ptr)
                                 ELSE ref.new_target_ptr[1]

\* a copy that shares the target of the original instead of copying it
CopyConstruct_shared(a, other) == other

\* copy constructor (and the move constructor that delegates to it):
\* allocates GetSize() bytes and memcpy's the other's target into them
CopyConstruct(a, other) ==
    [target_ptr |-> INDEX_NONE, new_target_ptr |-> <<Target(a, other)>>]

\* operator=(const const_memory_transparent_reference&), also reached from
\* the copy and the move assignment: memcpy other's target over this target.
\* The array after the assignment.
Assign(a, this, other) ==
    IF this.new_target_ptr = <<>>
        THEN Poke(a, this.target_ptr, Target(a, other))
        ELSE a

\* operator=(const void*): memcpy Value over this target
AssignBytes(a, this, Value) ==
    IF this.new_target_ptr = <<>> THEN Poke(a, this.target_ptr, Value) ELSE a

\* swap(a, b): FMemory::Memswap of the two targets
swap(a, x, y) ==
    LET bx == Target(a, x)
        by == Target(a, y)
    IN  Poke(Poke(a, x.target_ptr, by), y.target_ptr, bx)

\* ------------------------------------------------------------------------
\* Callback marshalling
\* ------------------------------------------------------------------------

\* the lambda with the parameters packed right to left
CreateLambdaToCallUFunction_reversed(Function, a, args) ==
    ProcessEvent(Function,
                 [k \in 1..Len(args) |-> Target(a, args[Len(args) + 1 - k])])

\* the lambda CreateLambdaToCallUFunction returns, applied to args: each
\* argument's bytes are copied into the working memory in parameter order,
\* the function is called and its return value read back
CreateLambdaToCallUFunction(Function, a, args) ==
    ProcessEvent(Function, [k \in 1..Len(args) |-> Target(a, args[k])])

\* ------------------------------------------------------------------------
\* std::sort over ScriptArrayHelperIterator (the introsort of libstdc++'s
\* <algorithm>): iterators are indices, *it is ElementRef(it), a value_type
\* local is a copy-constructed reference, an assignment through an iterator
\* is Assign and std::iter_swap is swap.
\* ------------------------------------------------------------------------

\* arrays up to this length are left to the final insertion sort
S_threshold == 16

\* e, with the array v evaluated first: an operator's arguments are evaluated
\* when they are first used, and a loop that hands on an array it has not
\* looked at would pile the pending updates up on the evaluator's stack
After(v, e) == IF v = v THEN e ELSE e

\* comp(x, y): the comparison lambda on two references
comp(cmp, a, x, y) == CreateLambdaToCallUFunction(cmp, a, <<x, y>>)

\* std::__lg(n): floor of the binary logarithm
RECURSIVE lg(_)
lg(n) == IF n <= 1 THEN 0 ELSE 1 + lg(n \div 2)

\* the while loop of std::__unguarded_linear_insert
RECURSIVE unguarded_linear_insert_loop(_, _, _, _, _)
unguarded_linear_insert_loop(a, last, next, val, cmp) ==
    IF comp(cmp, a, val, ElementRef(next))
        THEN unguarded_linear_insert_loop(
                 Assign(a, ElementRef(last), ElementRef(next)),
                 next, next - 1, val, cmp)
        ELSE Assign(a, ElementRef(last), val)

\* std::__unguarded_linear_insert(last, comp): val = std::move(*last)
unguarded_linear_insert(a, last, cmp) ==
    unguarded_linear_insert_loop(a, last, last - 1,
                                 CopyConstruct(a, ElementRef(last)), cmp)

\* std::move_backward(first, last, d_last)
RECURSIVE move_backward(_, _, _, _)
move_backward(a, first, last, d_last) ==
    IF first = last THEN a
    ELSE LET b == Assign(a, ElementRef(d_last - 1), ElementRef(last - 1))
         IN  After(b, move_backward(b, first, last - 1, d_last - 1))

\* the for loop of std::__insertion_sort
RECURSIVE insertion_sort_loop(_, _, _, _, _)
insertion_sort_loop(a, first, i, last, cmp) ==
    IF i = last THEN a
    ELSE LET b == IF comp(cmp, a, ElementRef(i), ElementRef(first))
                      THEN LET val == CopyConstruct(a, ElementRef(i))
                           IN  Assign(move_backward(a, first, i, i + 1),
                                      ElementRef(first), val)
                      ELSE unguarded_linear_insert(a, i, cmp)
         IN  After(b, insertion_sort_loop(b, first, i + 1, last, cmp))

\* std::__insertion_sort(first, last, comp)
insertion_sort(a, first, last, cmp) ==
    IF first = last THEN a
    ELSE insertion_sort_loop(a, first, first + 1, last, cmp)

\* std::__unguarded_insertion_sort(first, last, comp)
RECURSIVE unguarded_insertion_sort(_, _, _, _)
unguarded_insertion_sort(a, i, last, cmp) ==
    IF i = last THEN a
    ELSE LET b == unguarded_linear_insert(a, i, cmp)
         IN  After(b, unguarded_insertion_sort(b, i + 1, last, cmp))

\* std::__final_insertion_sort(first, last, comp)
final_insertion_sort(a, first, last, cmp) ==
    IF last - first > S_threshold
        THEN LET b == insertion_sort(a, first, first + S_threshold, cmp)
             IN  After(b, unguarded_insertion_sort(b, first + S_threshold,
                                                   last, cmp))
        ELSE insertion_sort(a, first, last, cmp)

\* std::__move_median_to_first(result, a, b, c, comp)
move_median_to_first(arr, result, a, b, c, cmp) ==
    LET lt(x, y) == comp(cmp, arr, ElementRef(x), ElementRef(y))
        to(x)    == swap(arr, ElementRef(result), ElementRef(x))
    IN  IF lt(a, b)
            THEN IF lt(b, c) THEN to(b)
                 ELSE IF lt(a, c) THEN to(c) ELSE to(a)
            ELSE IF lt(a, c) THEN to(a)
                 ELSE IF lt(b, c) THEN to(c) ELSE to(b)

\* while (comp(first, pivot)) ++first;
RECURSIVE partition_up(_, _, _, _)
partition_up(a, first, pivot, cmp) ==
    IF comp(cmp, a, ElementRef(first), ElementRef(pivot))
        THEN partition_up(a, first + 1, pivot, cmp)
        ELSE first

\* while (comp(pivot, last)) --last;
RECURSIVE partition_down(_, _, _, _)
partition_down(a, last, pivot, cmp) ==
    IF comp(cmp, a, ElementRef(pivot), ElementRef(last))
        THEN partition_down(a, last - 1, pivot, cmp)
        ELSE last

\* std::__unguarded_partition(first, last, pivot, comp): the array and the
\* cut it returns
RECURSIVE unguarded_partition(_, _, _, _, _)
unguarded_partition(a, first, last, pivot, cmp) ==
    LET f == partition_up(a, first, pivot, cmp)
        l == partition_down(a, last - 1, pivot, cmp)
    IN  IF ~(f < l) THEN [array |-> a, cut |-> f]
        ELSE unguarded_partition(swap(a, ElementRef(f), ElementRef(l)),
                                 f + 1, l, pivot, cmp)

\* std::__unguarded_partition_pivot(first, last, comp)
unguarded_partition_pivot(a, first, last, cmp) ==
    LET mid == first + (last - first) \div 2
    IN  unguarded_partition(
            move_median_to_first(a, first, first + 1, mid, last - 1, cmp),
            first + 1, last, first, cmp)

\* the while loop of std::__push_heap
RECURSIVE push_heap(_, _, _, _, _, _)
push_heap(a, first, holeIndex, topIndex, value, cmp) ==
    LET parent == (holeIndex - 1) \div 2
    IN  IF holeIndex > topIndex
           /\ comp(cmp, a, ElementRef(first + parent), value)
            THEN push_heap(Assign(a, ElementRef(first + holeIndex),
                                     ElementRef(first + parent)),
                           first, parent, topIndex, value, cmp)
            ELSE Assign(a, ElementRef(first + holeIndex), value)

\* the while loop of std::__adjust_heap: the array and the hole it ends at
RECURSIVE adjust_heap_loop(_, _, _, _, _)
adjust_heap_loop(a, first, holeIndex, len, cmp) ==
    IF holeIndex < (len - 1) \div 2
        THEN LET right == 2 * (holeIndex + 1)
                 secondChild ==
                     IF comp(cmp, a, ElementRef(first + right),
                                     ElementRef(first + (right - 1)))
                         THEN right - 1 ELSE right
             IN  adjust_heap_loop(
                     Assign(a, ElementRef(first + holeIndex),
                               ElementRef(first + secondChild)),
                     first, secondChild, len, cmp)
        ELSE [array |-> a, holeIndex |-> holeIndex]

\* std::__adjust_heap(first, holeIndex, len, value, comp)
adjust_heap(a, first, holeIndex, len, value, cmp) ==
    LET down == adjust_heap_loop(a, first, holeIndex, len, cmp)
        secondChild == 2 * (down.holeIndex + 1)
        lone == len % 2 = 0 /\ down.holeIndex = (len - 2) \div 2
        b == IF lone
                 THEN Assign(down.array, ElementRef(first + down.holeIndex),
                             ElementRef(first + (secondChild - 1)))
                 ELSE down.array
        hole == IF lone THEN secondChild - 1 ELSE down.holeIndex
    IN  push_heap(b, first, hole, holeIndex, value, cmp)

\* the while loop of std::__make_heap
RECURSIVE make_heap_loop(_, _, _, _, _)
make_heap_loop(a, first, parent, len, cmp) ==
    LET value == CopyConstruct(a, ElementRef(first + parent))
        b == adjust_heap(a, first, parent, len, value, cmp)
    IN  IF parent = 0 THEN b
        ELSE After(b, make_heap_loop(b, first, parent - 1, len, cmp))

\* std::__make_heap(first, last, comp)
make_heap(a, first, last, cmp) ==
    IF last - first < 2 THEN a
    ELSE make_heap_loop(a, first, (last - first - 2) \div 2, last - first, cmp)

\* std::__pop_heap(first, last, result, comp)
pop_heap(a, first, last, result, cmp) ==
    LET value == CopyConstruct(a, ElementRef(result))
    IN  adjust_heap(Assign(a, ElementRef(result), ElementRef(first)),
                    first, 0, last - first, value, cmp)

\* std::__sort_heap(first, last, comp)
RECURSIVE sort_heap(_, _, _, _)
sort_heap(a, first, last, cmp) ==
    IF last - first > 1
        THEN LET b == pop_heap(a, first, last - 1, last - 1, cmp)
             IN  After(b, sort_heap(b, first, last - 1, cmp))
        ELSE a

\* std::__partial_sort(first, last, last, comp), the heap sort introsort
\* falls back to: std::__heap_select has nothing behind middle to select
partial_sort(a, first, last, cmp) ==
    sort_heap(make_heap(a, first, last, cmp), first, last, cmp)

\* std::__introsort_loop(first, last, depth_limit, comp)
RECURSIVE introsort_loop(_, _, _, _, _)
introsort_loop(a, first, last, depth_limit, cmp) ==
    IF ~(last - first > S_threshold) THEN a
    ELSE IF depth_limit = 0 THEN partial_sort(a, first, last, cmp)
    ELSE LET p == unguarded_partition_pivot(a, first, last, cmp)
             b == introsort_loop(p.array, p.cut, last, depth_limit - 1, cmp)
         IN  After(b, introsort_loop(b, first, p.cut, depth_limit - 1, cmp))

\* std::sort(first, last, comp)
sort(a, first, last, cmp) ==
    IF first = last THEN a
    ELSE LET b == introsort_loop(a, first, last, lg(last - first) * 2, cmp)
         IN  After(b, final_insertion_sort(b, first, last, cmp))

\* ------------------------------------------------------------------------
\* The Generic functions that are one call of a standard algorithm
\* ------------------------------------------------------------------------

\* begin(ArrayHelper, ElementProperty): the iterator of index 0
begin(a) == 0

\* end(ArrayHelper, ElementProperty): the iterator of index Num()
end(a) == Num(a)

\* GenericSortAnyArray: std::sort(begin_it, end_it, lambda)
GenericSortAnyArray(TargetArray, ComparisonFunction) ==
    sort(TargetArray, begin(TargetArray), end(TargetArray), ComparisonFunction)

\* the for loop of std::fill(first, last, Value): *first = Value for every
\* iterator up to last.  The loop compares with != only, so a first behind
\* last, or a last behind the end, walks out of the array: ok is FALSE when
\* an iterator outside [0, Num) is dereferenced, array is what was written
\* until then.
RECURSIVE fill(_, _, _, _)
fill(a, first, last, Value) ==
    IF first = last THEN [array |-> a, ok |-> TRUE]
    ELSE IF first < 0 \/ first >= Num(a) THEN [array |-> a, ok |-> FALSE]
    ELSE fill(AssignBytes(a, ElementRef(first), Value), first + 1, last, Value)

\* a fill that writes nothing
GenericFill_none(TargetArray, Value) == [array |-> TargetArray, ok |-> TRUE]

\* GenericFill(TargetArray, ArrayProperty, Value)
GenericFill(TargetArray, Value) ==
    fill(TargetArray, begin(TargetArray), end(TargetArray), Value)

\* a fill that stops one element early
GenericFillRange_short(TargetArray, StartIndex, EndIndex, Value) ==
    fill(TargetArray, begin(TargetArray) + StartIndex,
         IF EndIndex > StartIndex THEN begin(TargetArray) + EndIndex - 1
                                  ELSE begin(TargetArray) + EndIndex, Value)

\* GenericFill(TargetArray, ArrayProperty, StartIndex, EndIndex, Value)
GenericFillRange(TargetArray, StartIndex, EndIndex, Value) ==
    fill(TargetArray, begin(TargetArray) + StartIndex,
         begin(TargetArray) + EndIndex, Value)

\* what ArrayHelper.RemoveValues(Index, Count) checks of its arguments
RemoveValuesChecks(a, Index, Count) ==
    Index >= 0 /\ Count >= 0 /\ Index + Count <= Num(a)

\* a removal that keeps the first element of the range
GenericRemoveRange_late(TargetArray, StartIndex, EndIndex) ==
    LET NumToRemove == EndIndex - StartIndex
    IN  IF NumToRemove = 0
            THEN [array |-> TargetArray, ok |-> TRUE]
        ELSE IF ~RemoveValuesChecks(TargetArray, StartIndex, NumToRemove)
            THEN [array |-> TargetArray, ok |-> FALSE]
        ELSE [array |-> RemoveValues(TargetArray, StartIndex + 1,
                                     NumToRemove - 1),
              ok |-> TRUE]

\* GenericRemoveRange: nothing to do for an empty range, RemoveValues
\* otherwise; ok is FALSE when RemoveValues refuses its arguments
GenericRemoveRange(TargetArray, StartIndex, EndIndex) ==
    LET NumToRemove == EndIndex - StartIndex
    IN  IF NumToRemove = 0
            THEN [array |-> TargetArray, ok |-> TRUE]
        ELSE IF ~RemoveValuesChecks(TargetArray, StartIndex, NumToRemove)
            THEN [array |-> TargetArray, ok |-> FALSE]
        ELSE [array |-> RemoveValues(TargetArray, StartIndex, NumToRemove),
              ok |-> TRUE]

\* ------------------------------------------------------------------------
\* GenericRemoveIf, one turn of its loop
\* ------------------------------------------------------------------------

\* a loop body that forgets the --i after a removal
RemoveIfBody_skip(a, i, Predicate) ==
    IF CreateLambdaToCallUFunction(Predicate, a, <<ElementRef(i)>>)
        THEN [array |-> RemoveValues(a, i, 1), i |-> i + 1]
        ELSE [array |-> a, i |-> i + 1]

\* the body of the for loop and its ++i: the element at i is tested; if it
\* satisfies the predicate it is removed and i stepped back, so that the
\* element that moved into i is the next one tested
RemoveIfBody(a, i, Predicate) ==
    IF CreateLambdaToCallUFunction(Predicate, a, <<ElementRef(i)>>)
        THEN [array |-> RemoveValues(a, i, 1), i |-> (i - 1) + 1]
        ELSE [array |-> a, i |-> i + 1]

\* ------------------------------------------------------------------------
\* GenericRandomSample, the pieces of its loop
\* ------------------------------------------------------------------------

\* a distribution that can also draw rest_length itself
uniform_int_distribution_wide(rest_length) ==
    {ToUnsigned(drawn) : drawn \in 0..rest_length}

\* std::uniform_int_distribution<unsigned_num_t> dist(0, rest_length - 1):
\* the values one draw can give
uniform_int_distribution(rest_length) ==
    {ToUnsigned(drawn) : drawn \in 0..(rest_length - 1)}

\* a counter that is not decremented
Decrement_kept(rest_samples) == rest_samples

\* --rest_samples on the unsigned counter
Decrement(rest_samples) ==
    IF rest_samples.lo > 0
        THEN [rest_samples EXCEPT !.lo = @ - 1]
        ELSE [hi |-> (rest_samples.hi - 1) % UINT16_RANGE,
              lo |-> UINT16_RANGE - 1]

\* an inserter that drops the new element
BackInsert_lost(ScriptArray, Value) == ScriptArray

\* an inserter that puts the new element in front
BackInsert_front(ScriptArray, Value) == <<Value>> \o ScriptArray

\* FScriptArrayBackInsertIterator::operator=(const void* Value):
\* AddUninitializedValue and memcpy Value into the new last element
BackInsert(ScriptArray, Value) == Append(ScriptArray, Value)

\* ------------------------------------------------------------------------
\* The searching algorithms of <algorithm> over ScriptArrayHelperConstIterator
\* (iterators are indices, *it is ElementRef(it)) and the Generic functions
\* that call them
\* ------------------------------------------------------------------------

\* FProperty::Identical on two elements
Identical(A, B) == A = B

\* an equality with a value that compares nothing
EqualsValue_never(a, this, other) == FALSE

\* const_memory_transparent_reference::operator==(const void*):
\* property.Identical(target_ptr, other)
EqualsValue(a, this, other) == Identical(Target(a, this), other)

\* one invocation of a callback on the elements the iterators its point
\* at: the indices of the iterators and what is copied into the working
\* memory
Invocation(a, its) ==
    [at |-> its,
     buffer |-> [k \in 1..Len(its) |-> Target(a, ElementRef(its[k]))]]

\* a find_if loop that goes on to the end after it has found the element
RECURSIVE find_if_loop_through(_, _, _, _, _)
find_if_loop_through(a, first, last, pred, calls) ==
    IF first = last THEN [it |-> last, calls |-> calls]
    ELSE LET rest == find_if_loop_through(
                         a, first + 1, last, pred,
                         Append(calls, Invocation(a, <<first>>)))
         IN  IF CreateLambdaToCallUFunction(pred, a, <<ElementRef(first)>>)
                 THEN [it |-> first, calls |-> rest.calls]
                 ELSE rest

\* the loop of std::find_if; calls are the invocations of pred so far
RECURSIVE find_if_loop(_, _, _, _, _)
find_if_loop(a, first, last, pred, calls) ==
    IF first = last THEN [it |-> last, calls |-> calls]
    ELSE IF CreateLambdaToCallUFunction(pred, a, <<ElementRef(first)>>)
        THEN [it |-> first,
              calls |-> Append(calls, Invocation(a, <<first>>))]
        ELSE find_if_loop(a, first + 1, last, pred,
                          Append(calls, Invocation(a, <<first>>)))

\* std::find_if: the first iterator in [first, last) whose element satisfies
\* pred, else last
find_if(a, first, last, pred) ==
    find_if_loop(a, first, last, pred, <<>>).it

\* the loop of std::find_if_not; calls are the invocations of pred so far
RECURSIVE find_if_not_loop(_, _, _, _, _)
find_if_not_loop(a, first, last, pred, calls) ==
    IF first = last THEN [it |-> last, calls |-> calls]
    ELSE IF ~CreateLambdaToCallUFunction(pred, a, <<ElementRef(first)>>)
        THEN [it |-> first,
              calls |-> Append(calls, Invocation(a, <<first>>))]
        ELSE find_if_not_loop(a, first + 1, last, pred,
                              Append(calls, Invocation(a, <<first>>)))

\* std::find_if_not: the first iterator whose element does not satisfy pred
find_if_not(a, first, last, pred) ==
    find_if_not_loop(a, first, last, pred, <<>>).it

\* an all_of that looks at the first element only
all_of_first(a, first, last, pred) ==
    first = last \/ CreateLambdaToCallUFunction(pred, a, <<ElementRef(first)>>)

\* std::all_of: last == std::find_if_not(first, last, pred)
all_of(a, first, last, pred) == last = find_if_not(a, first, last, pred)

\* std::none_of: last == std::find_if(first, last, pred)
none_of(a, first, last, pred) == last = find_if(a, first, last, pred)

\* std::any_of: !std::none_of(first, last, pred)
any_of(a, first, last, pred) == ~none_of(a, first, last, pred)

\* std::count: the number of iterators in [first, last) with *it == value
RECURSIVE count(_, _, _, _)
count(a, first, last, value) ==
    IF first = last THEN 0
    ELSE (IF EqualsValue(a, ElementRef(first), value) THEN 1 ELSE 0)
             + count(a, first + 1, last, value)

\* the loop of std::count_if; n counts the elements that satisfied pred,
\* calls are the invocations of pred so far
RECURSIVE count_if_loop(_, _, _, _, _, _)
count_if_loop(a, first, last, pred, n, calls) ==
    IF first = last THEN [n |-> n, calls |-> calls]
    ELSE count_if_loop(
             a, first + 1, last, pred,
             IF CreateLambdaToCallUFunction(pred, a, <<ElementRef(first)>>)
                 THEN n + 1 ELSE n,
             Append(calls, Invocation(a, <<first>>)))

\* std::count_if: the number of iterators in [first, last) with pred(*it)
count_if(a, first, last, pred) ==
    count_if_loop(a, first, last, pred, 0, <<>>).n

\* an adjacent_find loop that hands the later element to the predicate first
RECURSIVE adjacent_find_loop_swapped(_, _, _, _, _, _)
adjacent_find_loop_swapped(a, first, next, last, binary_pred, calls) ==
    IF next = last THEN [it |-> last, calls |-> calls]
    ELSE IF CreateLambdaToCallUFunction(binary_pred, a,
                                        <<ElementRef(next), ElementRef(first)>>)
        THEN [it |-> first, calls |-> Append(calls, Invocation(a, <<first, next>>))]
        ELSE adjacent_find_loop_swapped(
                 a, next, next + 1, last, binary_pred,
                 Append(calls, Invocation(a, <<first, next>>)))

\* the loop of std::adjacent_find: next runs one ahead of first; calls
\* are the invocations of binary_pred so far
RECURSIVE adjacent_find_loop(_, _, _, _, _, _)
adjacent_find_loop(a, first, next, last, binary_pred, calls) ==
    IF next = last THEN [it |-> last, calls |-> calls]
    ELSE IF CreateLambdaToCallUFunction(binary_pred, a,
                                        <<ElementRef(first), ElementRef(next)>>)
        THEN [it |-> first, calls |-> Append(calls, Invocation(a, <<first, next>>))]
        ELSE adjacent_find_loop(
                 a, next, next + 1, last, binary_pred,
                 Append(calls, Invocation(a, <<first, next>>)))

\* std::adjacent_find: the first iterator whose element and the next one
\* satisfy binary_pred, else last; an empty range is returned at once.
\* it is the iterator returned, calls the invocations of binary_pred.
adjacent_find(a, first, last, binary_pred) ==
    IF first = last THEN [it |-> last, calls |-> <<>>]
    ELSE adjacent_find_loop(a, first, first + 1, last, binary_pred, <<>>)

\* a loop that also moves on to an element that is not less than result
RECURSIVE max_element_loop_last(_, _, _, _, _, _)
max_element_loop_last(a, result, first, last, cmp, calls) ==
    IF first = last THEN [it |-> result, calls |-> calls]
    ELSE max_element_loop_last(
             a,
             IF ~CreateLambdaToCallUFunction(
                     cmp, a, <<ElementRef(first), ElementRef(result)>>)
                 THEN first ELSE result,
             first + 1, last, cmp,
             Append(calls, Invocation(a, <<result, first>>)))

\* the loop of std::max_element: result moves on when comp(*result, *first)
RECURSIVE max_element_loop(_, _, _, _, _, _)
max_element_loop(a, result, first, last, cmp, calls) ==
    IF first = last THEN [it |-> result, calls |-> calls]
    ELSE max_element_loop(
             a,
             IF CreateLambdaToCallUFunction(
                    cmp, a, <<ElementRef(result), ElementRef(first)>>)
                 THEN first ELSE result,
             first + 1, last, cmp,
             Append(calls, Invocation(a, <<result, first>>)))

\* a max_element that stays at the first element
max_element_first(a, first, last, cmp) == [it |-> first, calls |-> <<>>]

\* std::max_element: it is the iterator returned, calls the invocations of
\* cmp; an empty range is returned at once
max_element(a, first, last, cmp) ==
    IF first = last THEN [it |-> last, calls |-> <<>>]
    ELSE max_element_loop(a, first, first + 1, last, cmp, <<>>)

\* the loop of std::min_element: result moves on when comp(*first, *result)
RECURSIVE min_element_loop(_, _, _, _, _, _)
min_element_loop(a, result, first, last, cmp, calls) ==
    IF first = last THEN [it |-> result, calls |-> calls]
    ELSE min_element_loop(
             a,
             IF CreateLambdaToCallUFunction(
                    cmp, a, <<ElementRef(first), ElementRef(result)>>)
                 THEN first ELSE result,
             first + 1, last, cmp,
             Append(calls, Invocation(a, <<first, result>>)))

\* std::min_element: it is the iterator returned, calls the invocations of
\* cmp; an empty range is returned at once
min_element(a, first, last, cmp) ==
    IF first = last THEN [it |-> last, calls |-> <<>>]
    ELSE min_element_loop(a, first, first + 1, last, cmp, <<>>)

\* std::distance(cbegin_it, it)
distance(first, last) == last - first

\* an AdjacentFind that returns the end index when nothing is found
GenericAdjacentFind_end(TargetArray, BinaryPredicate) ==
    distance(begin(TargetArray),
             adjacent_find(TargetArray, begin(TargetArray), end(TargetArray),
                           BinaryPredicate).it)

\* GenericAdjacentFind
GenericAdjacentFind(TargetArray, BinaryPredicate) ==
    LET found_it == adjacent_find(TargetArray, begin(TargetArray),
                                  end(TargetArray), BinaryPredicate).it
    IN  IF found_it < end(TargetArray)
            THEN distance(begin(TargetArray), found_it)
            ELSE INDEX_NONE

\* GenericAllSatisfy
GenericAllSatisfy(TargetArray, Predicate) ==
    all_of(TargetArray, begin(TargetArray), end(TargetArray), Predicate)

\* GenericAnySatisfy
GenericAnySatisfy(TargetArray, Predicate) ==
    any_of(TargetArray, begin(TargetArray), end(TargetArray), Predicate)

\* GenericCount
GenericCount(TargetArray, ItemToCount) ==
    count(TargetArray, begin(TargetArray), end(TargetArray), ItemToCount)

\* GenericCountIf
GenericCountIf(TargetArray, Predicate) ==
    count_if(TargetArray, begin(TargetArray), end(TargetArray), Predicate)

\* a FindIf that returns the end index when nothing is found
GenericFindIf_end(TargetArray, Predicate) ==
    distance(begin(TargetArray),
             find_if(TargetArray, begin(TargetArray), end(TargetArray),
                     Predicate))

\* a FindIf that returns the index after the one found
GenericFindIf_next(TargetArray, Predicate) ==
    LET found_it == find_if(TargetArray, begin(TargetArray),
                            end(TargetArray), Predicate)
    IN  IF found_it + 1 < end(TargetArray)
            THEN distance(begin(TargetArray), found_it + 1)
            ELSE INDEX_NONE

\* GenericFindIf
GenericFindIf(TargetArray, Predicate) ==
    LET found_it == find_if(TargetArray, begin(TargetArray),
                            end(TargetArray), Predicate)
    IN  IF found_it < end(TargetArray)
            THEN distance(begin(TargetArray), found_it)
            ELSE INDEX_NONE

\* GenericMaxElementIndex
GenericMaxElementIndex(TargetArray, ComparisonFunction) ==
    LET max_it == max_element(TargetArray, begin(TargetArray),
                              end(TargetArray), ComparisonFunction).it
    IN  IF max_it < end(TargetArray)
            THEN distance(begin(TargetArray), max_it)
            ELSE INDEX_NONE

\* GenericMinElementIndex
GenericMinElementIndex(TargetArray, ComparisonFunction) ==
    LET min_it == min_element(TargetArray, begin(TargetArray),
                              end(TargetArray), ComparisonFunction).it
    IN  IF min_it < end(TargetArray)
            THEN distance(begin(TargetArray), min_it)
            ELSE INDEX_NONE

\* the null pointer
nullptr == <<>>

\* ArrayHelper.GetRawPtr(index) as a pointer: the index it points at
GetRawPtr(index) == <<index>>

\* a Max that never finds an element
GenericMax_null(TargetArray, ComparisonFunction) == nullptr

\* GenericMax: null for an empty array, else the address of the element at
\* GenericMaxElementIndex
GenericMax(TargetArray, ComparisonFunction) ==
    LET max_elem_index == GenericMaxElementIndex(TargetArray,
                                                 ComparisonFunction)
    IN  IF INDEX_NONE = max_elem_index THEN nullptr
                                       ELSE GetRawPtr(max_elem_index)

\* GenericMin: null for an empty array, else the address of the element at
\* GenericMinElementIndex
GenericMin(TargetArray, ComparisonFunction) ==
    LET min_elem_index == GenericMinElementIndex(TargetArray,
                                                 ComparisonFunction)
    IN  IF INDEX_NONE = min_elem_index THEN nullptr
                                       ELSE GetRawPtr(min_elem_index)

\* GenericNoneSatisfy: !GenericAnySatisfy
GenericNoneSatisfy(TargetArray, Predicate) ==
    ~GenericAnySatisfy(TargetArray, Predicate)

\* the invocations of Function that the Generic function of Node makes on
\* TargetArray: those of the algorithm it hands the lambda to
InvokedBy(Node, TargetArray, Function) ==
    LET first == begin(TargetArray)
        last == end(TargetArray)
    IN  CASE Node = "AdjacentFind" ->
                 adjacent_find(TargetArray, first, last, Function).calls
          [] Node = "AllSatisfy" ->
                 find_if_not_loop(TargetArray, first, last, Function,
                                  <<>>).calls
          [] Node \in {"AnySatisfy", "NoneSatisfy", "FindIf"} ->
                 find_if_loop(TargetArray, first, last, Function, <<>>).calls
          [] Node = "CountIf" ->
                 count_if_loop(TargetArray, first, last, Function, 0,
                               <<>>).calls
          [] Node \in {"Max", "MaxElementIndex"} ->
                 max_element(TargetArray, first, last, Function).calls
          [] Node \in {"Min", "MinElementIndex"} ->
                 min_element(TargetArray, first, last, Function).calls

\* ------------------------------------------------------------------------
\* References of different properties: the checks of operator=, swap,
\* operator== and operator!=
\* ------------------------------------------------------------------------

\* FProperty::SameType: the two properties are of the same class, whether
\* or not they are the same object
SameType(P, Q) == P.class = Q.class

\* FProperty::GetSize of the inner property of an array
GetSize(P) == IF P.class = "FIntProperty" THEN 4 ELSE 1

\* memory_transparent_reference(InTargetPtr, InElementProperty), with the
\* property kept: a view of the element at InTargetPtr
Reference(InTargetPtr, InElementProperty) ==
    [target_ptr |-> InTargetPtr, new_target_ptr |-> <<>>,
     property |-> InElementProperty]

\* a copy that is one more view of other's target
CopyReference_shared(a, other) == other

\* the copy constructor, with the property kept: the copy owns a buffer of
\* other.property.GetSize() bytes holding other's target
CopyReference(a, other) ==
    [target_ptr |-> INDEX_NONE, new_target_ptr |-> <<Target(a, other)>>,
     property |-> other.property]

\* an assignment that copies whatever the properties are
operator_assign_unchecked(a, this, other) ==
    [outcome |-> "returned", memory |-> Assign(a, this, other)]

\* operator=(const const_memory_transparent_reference&) in full: throws
\* when the properties are not of the same type, checks the sizes, then
\* copies. What the call ends with and the memory after it.
operator_assign(a, this, other) ==
    IF ~SameType(this.property, other.property)
        THEN [outcome |-> "std::invalid_argument", memory |-> a]
        ELSE IF GetSize(other.property) # GetSize(this.property)
                 THEN [outcome |-> "check failed", memory |-> a]
                 ELSE [outcome |-> "returned",
                       memory |-> Assign(a, this, other)]

\* the reference `this` after operator=(other) has returned: a reference
\* that owns its buffer has other's target copied into the buffer, a view
\* of an element is the same view
Assigned(a, this, other) ==
    IF this.new_target_ptr = <<>>
        THEN this
        ELSE [this EXCEPT !.new_target_ptr = <<Target(a, other)>>]

\* swap(a, b) in full: throws when the properties are not of the same
\* type, checks the sizes, then exchanges the two targets
swap_references(a, x, y) ==
    IF ~SameType(x.property, y.property)
        THEN [outcome |-> "std::invalid_argument", memory |-> a]
        ELSE IF GetSize(y.property) # GetSize(x.property)
                 THEN [outcome |-> "check failed", memory |-> a]
                 ELSE [outcome |-> "returned", memory |-> swap(a, x, y)]

\* a comparison that looks at the targets whatever the properties are
operator_eq_unchecked(a, this, other) ==
    Identical(Target(a, this), Target(a, other))

\* operator==(const const_memory_transparent_reference&): false when the
\* properties are not of the same type, else property.Identical of the two
\* targets
operator_eq(a, this, other) ==
    IF ~SameType(this.property, other.property)
        THEN FALSE
        ELSE Identical(Target(a, this), Target(a, other))

\* operator!=(const const_memory_transparent_reference&)
operator_ne(a, this, other) == ~operator_eq(a, this, other)

\* ------------------------------------------------------------------------
\* Callback marshalling, byte by byte: an element is the sequence of its
\* ElementSize bytes
\* ------------------------------------------------------------------------

\* sizeof(ReturnT) of the lambdas the Generic functions create, ReturnT
\* being bool
sizeof_bool == 1

\* PredicateParamSize: ElementSize for each argument, plus sizeof(ReturnT)
PredicateParamSize(ElementSize, nargs) == nargs * ElementSize + sizeof_bool

\* a copy that always starts at the front of the destination
memcpy_front(dest, offset, src, n) ==
    [k \in 1..Len(dest) |-> IF k <= n THEN src[k] ELSE dest[k]]

\* std::memcpy(dest + offset, src, n): dest afterwards
memcpy(dest, offset, src, n) ==
    [k \in 1..Len(dest) |->
        IF offset < k /\ k <= offset + n THEN src[k - offset] ELSE dest[k]]

\* the fold over the arguments of the lambda: each argument's target is
\* copied to working_offset, which then moves on by ElementSize; args are
\* the indices of the elements. The working memory and the offset after
\* the last argument.
RECURSIVE CopyArguments(_, _, _, _, _)
CopyArguments(memory, a, args, ElementSize, working_offset) ==
    IF args = <<>>
        THEN [memory |-> memory, working_offset |-> working_offset]
        ELSE CopyArguments(
                 memcpy(memory, working_offset, At(a, Head(args)), ElementSize),
                 a, Tail(args), ElementSize, working_offset + ElementSize)

\* the number an element's bytes stand for, least significant byte first
RECURSIVE Decode(_)
Decode(bytes) ==
    IF bytes = <<>> THEN 0 ELSE Head(bytes) + 256 * Decode(Tail(bytes))

\* Context.ProcessEvent(&Predicate, Parms) on the bytes: the function finds
\* parameter k at (k - 1) * ElementSize and leaves its return value behind
\* the last parameter. Parms afterwards.
ProcessEventBytes(Function, Parms, ElementSize, nargs) ==
    LET parameters ==
            [k \in 1..nargs |->
                Decode(SubSeq(Parms, (k - 1) * ElementSize + 1,
                              k * ElementSize))]
    IN  [Parms EXCEPT ![nargs * ElementSize + 1] =
             IF ProcessEvent(Function, parameters) THEN 1 ELSE 0]

\* a lambda that reads its result from the front of the working memory
LambdaToCallUFunction_front(Function, a, args, ElementSize, memory) ==
    LET copied == CopyArguments(memory, a, args, ElementSize, 0)
        left == ProcessEventBytes(Function, copied.memory, ElementSize,
                                  Len(args))
    IN  [handed |-> copied.memory, left |-> left, array |-> a,
         result |-> left[1] # 0]

\* one call of the lambda CreateLambdaToCallUFunction returns, memory being
\* its working memory before the call: the arguments are copied in, the
\* function is called, and the bool at working_offset is the result.
\* handed is the working memory the function is called with, left the
\* working memory after it, array the array after the call.
LambdaToCallUFunction(Function, a, args, ElementSize, memory) ==
    LET copied == CopyArguments(memory, a, args, ElementSize, 0)
        left == ProcessEventBytes(Function, copied.memory, ElementSize,
                                  Len(args))
    IN  [handed |-> copied.memory, left |-> left, array |-> a,
         result |-> left[copied.working_offset + 1] # 0]

\* ------------------------------------------------------------------------
\* ScriptArrayHelperConstIterator / ScriptArrayHelperIterator as objects:
\* the index, the cached reference (<<>> while the optional is empty) and
\* the flag that says the reference has to be rebuilt
\* ------------------------------------------------------------------------

\* ScriptArrayHelperConstIterator(InArrayHelper, InElementProperty, in_index)
Iterator(in_index) ==
    [index |-> in_index, ref |-> <<>>, need_to_rebuild_ref |-> TRUE]

\* the copy constructor: the index is copied, the reference and the flag
\* are those of a new iterator
CopyIterator(other) ==
    [index |-> other.index, ref |-> <<>>, need_to_rebuild_ref |-> TRUE]

\* a copy assignment that leaves the flag alone
AssignIterator_keep(this, other) == [this EXCEPT !.index = other.index]

\* the copy assignment operator: the flag is set if the index changed
AssignIterator(this, other) ==
    [this EXCEPT !.index = other.index,
                 !.need_to_rebuild_ref = @ \/ this.index # other.index]

\* operator+=(offset); ++ and -- do the same with 1 and -1, and
\* operator-=(offset) is *this += -offset
Advance(this, offset) ==
    [this EXCEPT !.index = @ + offset, !.need_to_rebuild_ref = TRUE]

\* operator*: the reference is rebuilt from ArrayHelper->GetRawPtr(index)
\* if the flag is set, the flag is cleared and the cached reference
\* returned. The iterator afterwards, the reference and whether it was
\* rebuilt.
Dereference(this) ==
    LET ref == IF this.need_to_rebuild_ref
                   THEN <<ElementRef(GetRawPtr(this.index)[1])>>
                   ELSE this.ref
    IN  [iterator |-> [this EXCEPT !.ref = ref,
                                   !.need_to_rebuild_ref = FALSE],
         ref |-> ref[1],
         rebuilt |-> this.need_to_rebuild_ref]

\* ------------------------------------------------------------------------
\* Inputs
\* ------------------------------------------------------------------------

\* element values of the enumerated arrays
Elems == 0..MaxElem

\* the values Fill and FillRange write: the least and the greatest element
FillValues == {0, MaxElem}

\* every array of at most MaxLen elements
Arrays == UNION {[1..n -> Elems] : n \in 0..MaxLen}

\* the arrays of the documented scenarios
Scenarios == {<<3, 1, 4, 1, 5>>, <<1, 2, 3, 4, 5>>}

\* an array one element longer than std::sort leaves to its insertion sort
LongArray == [j \in 1..(S_threshold + 1) |-> j - 1]

\* the arrays a run can start from
InputArrays == Arrays \cup Scenarios \cup {LongArray}

\* the array of the documented scenario of AdjacentFind
SearchScenarios == {<<3, 1, 1, 4, 5>>}

\* the nodes other than SortAnyArray are called on arrays up to this length
MaxScan == Num(LongArray) - 1

\* StartIndex and EndIndex of a call on array a: every index of a, and one
\* step outside on either side
Indices(a) == (0 - 1)..(Num(a) + 1)

\* NumOfSamples of a call on array a: negative, zero, up to and above Num
SampleCounts(a) == (0 - 2)..(Num(a) + 1)

\* the predicates the Satisfy nodes are called with: each with its negation
SatisfyPredicates == {"IsEven", "IsOdd", "Always", "NeverTrue"}

\* the predicate that is false where Predicate is true
Negation(Predicate) ==
    CASE Predicate = "IsEven"    -> "IsOdd"
      [] Predicate = "IsOdd"     -> "IsEven"
      [] Predicate = "Always"    -> "NeverTrue"
      [] Predicate = "NeverTrue" -> "Always"

\* the predicates CountIf is called with
CountPredicates == {"IsZero", "IsOne", "IsEven"}

\* the predicates FindIf is called with
FindPredicates == {"IsEven", "IsOne", "NeverTrue"}

\* the binary predicates AdjacentFind is called with
BinaryPredicates == {"Equal", "Less", "Never"}

\* the comparison functions Max, Min and their index nodes are called with
ExtremumFunctions == {"Less", "Greater", "HalfLess"}

\* the arguments of a call that do not apply to the node called
NoArg == [Function |-> "", StartIndex |-> 0, EndIndex |-> 0, Value |-> 0,
          NumOfSamples |-> 0]

\* the inner properties of three arrays of the caller: two arrays of
\* integers, each with a property object of its own, and an array of bytes
InnerProperties ==
    <<[class |-> "FIntProperty", array |-> "Ints"],
      [class |-> "FIntProperty", array |-> "MoreInts"],
      [class |-> "FByteProperty", array |-> "Bytes"]>>

\* the property of each element the references are made of: two elements
\* of Ints, one of MoreInts, one of Bytes
ElementProperties ==
    <<InnerProperties[1], InnerProperties[1], InnerProperties[2],
      InnerProperties[3]>>

\* the elements of the three arrays, one after the other
Memories == [1..Len(ElementProperties) -> Elems]

\* the references to the elements of a
Views(a) == {Reference(p - 1, ElementProperties[p]) : p \in 1..Len(a)}

\* the references to the elements of a and the copies of them
ViewsAndCopies(a) == Views(a) \cup {CopyReference(a, r) : r \in Views(a)}

\* arrays of one or two elements of one or two bytes each
ByteArrays ==
    UNION {[1..n -> [1..ElementSize -> Elems]] :
               n \in 1..2, ElementSize \in 1..2}

\* ArrayProperty.Inner->GetSize() of an array of ByteArrays
ElementSizeOf(a) == Len(a[1])

\* ::operator new(PredicateParamSize): what the working memory can hold
\* before the first call
Uninitialized(size) == {[k \in 1..size |-> byte] : byte \in FillValues}

\* ------------------------------------------------------------------------
\* State
\* ------------------------------------------------------------------------

VARIABLES
    TargetArray,    \* the caller's array the nodes work on
    OldArray,       \* TargetArray when the last node was called
    node,           \* the node called last
    arg,            \* its arguments
    pc,             \* "idle", the loop a call is in, or "halted"
    outcome,        \* how the last call ended
    ncalls,         \* nodes called so far
    i,              \* GenericRemoveIf: the loop index
    it,             \* GenericRandomSample: the index of the loop iterator
    rest_samples,   \* GenericRandomSample: samples still to pick (uint32)
    Samples,        \* GenericRandomSample: the Samples array
    Others,         \* GenericRandomSample: the Others array
    SamplesFrom,    \* the position in TargetArray of each element of Samples
    OthersFrom,     \* the position in TargetArray of each element of Others
    ReturnValue,    \* what the last call wrote to RESULT_PARAM, if anything
    OutValue,       \* what it copied to its MaxValue / MinValue pin, if anything
    Entered,        \* whether the last call reached its Generic function
    Dirty,          \* whether the last call marked the array property dirty
    Invoked,        \* the invocations of the callback by the last call, in
                    \* order (the comparisons of std::sort are not kept)
    Iterators,      \* the iterator objects over TargetArray that are followed
                    \* one operation at a time, <<>> when there are none
    Copies          \* the reference made by the copy constructor that is
                    \* followed, with where it was copied from; <<>> when
                    \* there is none

vars == <<TargetArray, OldArray, node, arg, pc, outcome, ncalls, i, it,
          rest_samples, Samples, Others, SamplesFrom, OthersFrom,
          ReturnValue, OutValue, Entered, Dirty, Invoked, Iterators, Copies>>

loopvars == <<i, it, rest_samples, Samples, Others, SamplesFrom, OthersFrom>>

\* before a node is called, with the caller's array one of Inputs
Start(Inputs) ==
    /\ TargetArray \in Inputs
    /\ OldArray = TargetArray
    /\ node = "none"
    /\ arg = NoArg
    /\ pc = "idle"
    /\ outcome = "none"
    /\ ncalls = 0
    /\ i = 0
    /\ it = 0
    /\ rest_samples = ToUnsigned(0)
    /\ Samples = <<>>
    /\ Others = <<>>
    /\ SamplesFrom = <<>>
    /\ OthersFrom = <<>>
    /\ ReturnValue = <<>>
    /\ OutValue = <<>>
    /\ Entered = FALSE
    /\ Dirty = FALSE
    /\ Invoked = <<>>
    /\ Iterators = <<>>
    /\ Copies = <<>>

Init == Start(InputArrays)

\* the arrays the searching nodes start from
InitSearch == Start(InputArrays \cup SearchScenarios)

\* the elements the references start from
InitReference == Start(Memories)

\* a node is called: the caller is idle and the records of the previous
\* call are dropped
Call(Node, Arguments) ==
    /\ pc = "idle"
    /\ ncalls < MaxCalls
    /\ ncalls' = ncalls + 1
    /\ node' = Node
    /\ arg' = Arguments
    /\ OldArray' = TargetArray
    /\ i' = 0
    /\ Samples' = <<>>
    /\ Others' = <<>>
    /\ SamplesFrom' = <<>>
    /\ OthersFrom' = <<>>
    /\ Iterators' = Iterators
    /\ Copies' = Copies

\* what a call hands back: RESULT_PARAM and the output pin, <<>> where
\* nothing is written
Outputs(Return, Out) == ReturnValue' = Return /\ OutValue' = Out

\* how far a call went: whether it reached its Generic function, whether
\* it marked the array property dirty, and the invocations of the callback
Effects(InGeneric, MarkedDirty, Callbacks) ==
    /\ Entered' = InGeneric
    /\ Dirty' = MarkedDirty
    /\ Invoked' = Callbacks

\* a lookup failure that is noticed only after the property is marked dirty
NotFound_dirty == [outcome |-> "not found", entered |-> FALSE, dirty |-> TRUE]

\* if (!Function) { UE_LOG(...); return; }: the node logs and returns
\* before MARK_PROPERTY_DIRTY and before its Generic function
NotFound == [outcome |-> "not found", entered |-> FALSE, dirty |-> FALSE]

\* what a run-time fault leaves behind
Faults == {"crashed", "memory corrupted"}

\* ------------------------------------------------------------------------
\* The nodes
\* ------------------------------------------------------------------------

\* execSortAnyArray: look the comparison function up; without it log and
\* return, else GenericSortAnyArray
SortAnyArray ==
    \E Name \in ComparisonFunctions \cup {MissingName} :
        LET ComparisonFunction == FindFunction(Name)
        IN  /\ Call("SortAnyArray", [NoArg EXCEPT !.Function = Name])
            /\ IF ComparisonFunction = "nullptr"
                   THEN /\ outcome' = NotFound.outcome
                        /\ TargetArray' = TargetArray
                        /\ Effects(NotFound.entered, NotFound.dirty, <<>>)
                   ELSE /\ outcome' = "returned"
                        /\ TargetArray' =
                               GenericSortAnyArray(TargetArray,
                                                   ComparisonFunction)
                        /\ Effects(TRUE, TRUE, <<>>)
            /\ UNCHANGED <<pc, it, rest_samples>>
            /\ Outputs(<<>>, <<>>)

\* execFill: GenericFill over the whole array
Fill ==
    \E Value \in FillValues :
        /\ Num(TargetArray) <= MaxScan
        /\ Call("Fill", [NoArg EXCEPT !.Value = Value])
        /\ TargetArray' = GenericFill(TargetArray, Value).array
        /\ outcome' = "returned"
        /\ UNCHANGED <<pc, it, rest_samples>>
        /\ Outputs(<<>>, <<>>)
        /\ Effects(TRUE, TRUE, <<>>)

\* execFillRange: GenericFill over [StartIndex, EndIndex); writing outside
\* the array is undefined behaviour
FillRange ==
    \E StartIndex \in Indices(TargetArray), EndIndex \in Indices(TargetArray),
       Value \in FillValues :
        LET filled == GenericFillRange(TargetArray, StartIndex, EndIndex, Value)
        IN  /\ Num(TargetArray) <= MaxLen
            /\ Call("FillRange", [NoArg EXCEPT !.StartIndex = StartIndex,
                                               !.EndIndex = EndIndex,
                                               !.Value = Value])
            /\ TargetArray' = filled.array
            /\ IF filled.ok
                   THEN outcome' = "returned" /\ pc' = pc
                   ELSE outcome' \in Faults /\ pc' = "halted"
            /\ UNCHANGED <<it, rest_samples>>
            /\ Outputs(<<>>, <<>>)
            /\ Effects(TRUE, TRUE, <<>>)

\* execRemoveRange: GenericRemoveRange; on arguments that are no range of
\* the array RemoveValues stops the program where its checks are compiled
\* in, and is undefined behaviour where they are not
RemoveRange ==
    \E StartIndex \in Indices(TargetArray), EndIndex \in Indices(TargetArray) :
        LET removed == GenericRemoveRange(TargetArray, StartIndex, EndIndex)
        IN  /\ Num(TargetArray) <= MaxScan
            /\ Call("RemoveRange", [NoArg EXCEPT !.StartIndex = StartIndex,
                                                 !.EndIndex = EndIndex])
            /\ TargetArray' = removed.array
            /\ IF removed.ok
                   THEN outcome' = "returned" /\ pc' = pc
                   ELSE /\ outcome' \in {"check failed"} \cup Faults
                        /\ pc' = "halted"
            /\ UNCHANGED <<it, rest_samples>>
            /\ Outputs(<<>>, <<>>)
            /\ Effects(TRUE, TRUE, <<>>)

\* execRemoveIf: look the predicate up; without it log and return, else
\* enter the loop of GenericRemoveIf at i = 0
RemoveIfCall ==
    \E Name \in Predicates \cup {MissingName} :
        /\ Num(TargetArray) <= MaxScan
        /\ Call("RemoveIf", [NoArg EXCEPT !.Function = Name])
        /\ IF FindFunction(Name) = "nullptr"
               THEN /\ outcome' = NotFound.outcome
                    /\ pc' = pc
                    /\ Effects(NotFound.entered, NotFound.dirty, <<>>)
               ELSE /\ outcome' = "running"
                    /\ pc' = "RemoveIf"
                    /\ Effects(TRUE, TRUE, <<>>)
        /\ UNCHANGED <<TargetArray, it, rest_samples>>
        /\ Outputs(<<>>, <<>>)

\* GenericRemoveIf: one turn of the loop, i < ArrayHelper.Num()
RemoveIfLoop ==
    /\ pc = "RemoveIf"
    /\ i < Num(TargetArray)
    /\ LET turn == RemoveIfBody(TargetArray, i, FindFunction(arg.Function))
       IN  /\ TargetArray' = turn.array
           /\ i' = turn.i
    /\ Invoked' = Append(Invoked, Invocation(TargetArray, <<i>>))
    /\ UNCHANGED <<OldArray, node, arg, pc, outcome, ncalls, it, rest_samples,
                   Samples, Others, SamplesFrom, OthersFrom, ReturnValue,
                   OutValue, Entered, Dirty, Iterators, Copies>>

\* GenericRemoveIf: the loop ends
RemoveIfReturn ==
    /\ pc = "RemoveIf"
    /\ ~(i < Num(TargetArray))
    /\ pc' = "idle"
    /\ outcome' = "returned"
    /\ UNCHANGED <<TargetArray, OldArray, node, arg, ncalls, loopvars,
                   ReturnValue, OutValue, Entered, Dirty, Invoked,
                   Iterators, Copies>>

\* execRandomSample: GenericRandomSample returns two empty arrays for an
\* empty array and enters its loop otherwise
RandomSampleCall ==
    \E NumOfSamples \in SampleCounts(TargetArray) :
        /\ Num(TargetArray) <= MaxScan
        /\ Call("RandomSample", [NoArg EXCEPT !.NumOfSamples = NumOfSamples])
        /\ IF 0 = Num(TargetArray)
               THEN /\ outcome' = "returned"
                    /\ pc' = pc
                    /\ rest_samples' = rest_samples
               ELSE /\ outcome' = "running"
                    /\ pc' = "RandomSample"
                    /\ rest_samples' = ToUnsigned(NumOfSamples)
        /\ it' = begin(TargetArray)
        /\ UNCHANGED TargetArray
        /\ Outputs(<<>>, <<>>)
        /\ Effects(TRUE, FALSE, <<>>)

\* GenericRandomSample: one turn of the loop, it < cend_it, with one draw
RandomSampleLoop ==
    /\ pc = "RandomSample"
    /\ it < end(TargetArray)
    /\ LET rest_length == end(TargetArray) - it
       IN  \E drawn \in uniform_int_distribution(rest_length) :
               IF UnsignedLess(drawn, rest_samples)
                   THEN /\ rest_samples' = Decrement(rest_samples)
                        /\ Samples' = BackInsert(Samples, At(TargetArray, it))
                        /\ SamplesFrom' = Append(SamplesFrom, it)
                        /\ UNCHANGED <<Others, OthersFrom>>
                   ELSE /\ Others' = BackInsert(Others, At(TargetArray, it))
                        /\ OthersFrom' = Append(OthersFrom, it)
                        /\ UNCHANGED <<rest_samples, Samples, SamplesFrom>>
    /\ it' = it + 1
    /\ UNCHANGED <<TargetArray, OldArray, node, arg, pc, outcome, ncalls, i,
                   ReturnValue, OutValue, Entered, Dirty, Invoked,
                   Iterators, Copies>>

\* GenericRandomSample: the loop ends and the pair is returned
RandomSampleReturn ==
    /\ pc = "RandomSample"
    /\ ~(it < end(TargetArray))
    /\ pc' = "idle"
    /\ outcome' = "returned"
    /\ UNCHANGED <<TargetArray, OldArray, node, arg, ncalls, loopvars,
                   ReturnValue, OutValue, Entered, Dirty, Invoked,
                   Iterators, Copies>>

\* the body of a node that reads the array and returns a value: look the
\* function up; without it log and return, else write Return, what the
\* Generic function returns, to RESULT_PARAM
Search(Node, Name, Return) ==
    /\ Call(Node, [NoArg EXCEPT !.Function = Name])
    /\ IF FindFunction(Name) = "nullptr"
           THEN /\ outcome' = NotFound.outcome
                /\ Outputs(<<>>, <<>>)
                /\ Effects(NotFound.entered, NotFound.dirty, <<>>)
           ELSE /\ outcome' = "returned"
                /\ Outputs(<<Return>>, <<>>)
                /\ Effects(TRUE, FALSE,
                           InvokedBy(Node, TargetArray, FindFunction(Name)))
    /\ UNCHANGED <<TargetArray, pc, it, rest_samples>>

\* the body of a node that copies an element of the array to its output
\* pin: look the function up; without it log and return, else copy the
\* element ElementPtr points at, if it is not null, to the pin
Extremum(Node, Name, ElementPtr) ==
    /\ Call(Node, [NoArg EXCEPT !.Function = Name])
    /\ IF FindFunction(Name) = "nullptr"
           THEN /\ outcome' = NotFound.outcome
                /\ Outputs(<<>>, <<>>)
                /\ Effects(NotFound.entered, NotFound.dirty, <<>>)
           ELSE /\ outcome' = "returned"
                /\ Effects(TRUE, FALSE,
                           InvokedBy(Node, TargetArray, FindFunction(Name)))
                /\ IF ElementPtr # nullptr
                       THEN Outputs(<<>>, <<At(TargetArray, ElementPtr[1])>>)
                       ELSE Outputs(<<>>, <<>>)
    /\ UNCHANGED <<TargetArray, pc, it, rest_samples>>

\* execAdjacentFind
AdjacentFind ==
    \E Name \in BinaryPredicates \cup {MissingName} :
        /\ Num(TargetArray) <= MaxScan
        /\ Search("AdjacentFind", Name,
                  GenericAdjacentFind(TargetArray, FindFunction(Name)))

\* execAllSatisfy
AllSatisfy ==
    \E Name \in SatisfyPredicates \cup {MissingName} :
        /\ Num(TargetArray) <= MaxScan
        /\ Search("AllSatisfy", Name,
                  GenericAllSatisfy(TargetArray, FindFunction(Name)))

\* execAnySatisfy
AnySatisfy ==
    \E Name \in SatisfyPredicates \cup {MissingName} :
        /\ Num(TargetArray) <= MaxScan
        /\ Search("AnySatisfy", Name,
                  GenericAnySatisfy(TargetArray, FindFunction(Name)))

\* execNoneSatisfy
NoneSatisfy ==
    \E Name \in SatisfyPredicates \cup {MissingName} :
        /\ Num(TargetArray) <= MaxScan
        /\ Search("NoneSatisfy", Name,
                  GenericNoneSatisfy(TargetArray, FindFunction(Name)))

\* execCount: GenericCount of ItemToCount
Count ==
    \E ItemToCount \in Elems :
        /\ Num(TargetArray) <= MaxScan
        /\ Call("Count", [NoArg EXCEPT !.Value = ItemToCount])
        /\ outcome' = "returned"
        /\ Outputs(<<GenericCount(TargetArray, ItemToCount)>>, <<>>)
        /\ Effects(TRUE, FALSE, <<>>)
        /\ UNCHANGED <<TargetArray, pc, it, rest_samples>>

\* execCountIf
CountIf ==
    \E Name \in CountPredicates \cup {MissingName} :
        /\ Num(TargetArray) <= MaxScan
        /\ Search("CountIf", Name,
                  GenericCountIf(TargetArray, FindFunction(Name)))

\* execFindIf
FindIf ==
    \E Name \in FindPredicates \cup {MissingName} :
        /\ Num(TargetArray) <= MaxScan
        /\ Search("FindIf", Name, GenericFindIf(TargetArray, FindFunction(Name)))

\* execMax
Max ==
    \E Name \in ExtremumFunctions \cup {MissingName} :
        /\ Num(TargetArray) <= MaxScan
        /\ Extremum("Max", Name, GenericMax(TargetArray, FindFunction(Name)))

\* execMaxElementIndex
MaxElementIndex ==
    \E Name \in ExtremumFunctions \cup {MissingName} :
        /\ Num(TargetArray) <= MaxScan
        /\ Search("MaxElementIndex", Name,
                  GenericMaxElementIndex(TargetArray, FindFunction(Name)))

\* execMin
Min ==
    \E Name \in ExtremumFunctions \cup {MissingName} :
        /\ Num(TargetArray) <= MaxScan
        /\ Extremum("Min", Name, GenericMin(TargetArray, FindFunction(Name)))

\* execMinElementIndex
MinElementIndex ==
    \E Name \in ExtremumFunctions \cup {MissingName} :
        /\ Num(TargetArray) <= MaxScan
        /\ Search("MinElementIndex", Name,
                  GenericMinElementIndex(TargetArray, FindFunction(Name)))

\* ------------------------------------------------------------------------
\* The operators of a reference, applied to two references of any
\* properties
\* ------------------------------------------------------------------------

\* Operator is applied to the references a and b: what it ends with, the
\* memory it leaves and what it returns
Apply(Operator, a, b, End, Memory, Return) ==
    /\ pc = "idle"
    /\ node' = Operator
    /\ arg' = [a |-> a, b |-> b]
    /\ OldArray' = TargetArray
    /\ outcome' = End
    /\ TargetArray' = Memory
    /\ Outputs(Return, <<>>)
    /\ UNCHANGED <<pc, ncalls, loopvars, Entered, Dirty, Invoked,
                   Iterators, Copies>>

\* a = b
AssignReference ==
    \E a \in Views(TargetArray), b \in ViewsAndCopies(TargetArray) :
        LET r == operator_assign(TargetArray, a, b)
        IN  /\ Len(TargetArray) = Len(ElementProperties)
            /\ Apply("operator=", a, b, r.outcome, r.memory, <<>>)

\* swap(a, b)
SwapReferences ==
    \E a \in Views(TargetArray), b \in Views(TargetArray) :
        LET r == swap_references(TargetArray, a, b)
        IN  /\ Len(TargetArray) = Len(ElementProperties)
            /\ Apply("swap", a, b, r.outcome, r.memory, <<>>)

\* a == b
EqualReferences ==
    \E a \in ViewsAndCopies(TargetArray), b \in ViewsAndCopies(TargetArray) :
        /\ Len(TargetArray) = Len(ElementProperties)
        /\ Apply("operator==", a, b, "returned", TargetArray,
                 <<operator_eq(TargetArray, a, b)>>)

\* a != b
NotEqualReferences ==
    \E a \in ViewsAndCopies(TargetArray), b \in ViewsAndCopies(TargetArray) :
        /\ Len(TargetArray) = Len(ElementProperties)
        /\ Apply("operator!=", a, b, "returned", TargetArray,
                 <<operator_ne(TargetArray, a, b)>>)

\* memory_transparent_reference copy(other), or copy(std::move(other)),
\* which delegates to the copy constructor; the copy is followed from
\* here on, with the reference it was made from and the bytes that
\* reference had
CopyConstructReference ==
    \E other \in Views(TargetArray), moved \in BOOLEAN :
        /\ pc = "idle"
        /\ Len(TargetArray) = Len(ElementProperties)
        /\ node' = "copy constructor"
        /\ arg' = [a |-> other, moved |-> moved]
        /\ OldArray' = TargetArray
        /\ outcome' = "returned"
        /\ Copies' = <<[ref |-> CopyReference(TargetArray, other),
                        from |-> other,
                        held |-> At(TargetArray, other.target_ptr),
                        assigned |-> FALSE]>>
        /\ Outputs(<<>>, <<>>)
        /\ UNCHANGED <<TargetArray, pc, ncalls, loopvars, Entered, Dirty,
                       Invoked, Iterators>>

\* copy = b, b a view of an element
AssignToCopy ==
    \E b \in Views(TargetArray) :
        LET this == Copies[1].ref
            r == operator_assign(TargetArray, this, b)
        IN  /\ pc = "idle"
            /\ Copies # <<>>
            /\ node' = "operator="
            /\ arg' = [a |-> this, b |-> b]
            /\ OldArray' = TargetArray
            /\ outcome' = r.outcome
            /\ TargetArray' = r.memory
            /\ Copies' = IF r.outcome = "returned"
                             THEN <<[Copies[1] EXCEPT
                                        !.ref = Assigned(TargetArray, this, b),
                                        !.assigned = TRUE]>>
                             ELSE Copies
            /\ Outputs(<<>>, <<>>)
            /\ UNCHANGED <<pc, ncalls, loopvars, Entered, Dirty, Invoked,
                           Iterators>>

\* ------------------------------------------------------------------------
\* The lambdas of CreateLambdaToCallUFunction, called on elements of an
\* array of bytes
\* ------------------------------------------------------------------------

\* the lambda for Function is called with the elements at args: the
\* working memory it hands to the function and the bool it returns
CallLambda(Function, args) ==
    \E memory \in Uninitialized(PredicateParamSize(ElementSizeOf(TargetArray),
                                                   Len(args))) :
        LET call == LambdaToCallUFunction(Function, TargetArray, args,
                                          ElementSizeOf(TargetArray), memory)
        IN  /\ pc = "idle"
            /\ node' = "lambda"
            /\ arg' = [Function |-> Function, args |-> args,
                       ElementSize |-> ElementSizeOf(TargetArray)]
            /\ OldArray' = TargetArray
            /\ TargetArray' = call.array
            /\ outcome' = "returned"
            /\ Outputs(<<call.result>>, <<>>)
            /\ Effects(FALSE, FALSE,
                       <<[at |-> args, buffer |-> call.handed]>>)
            /\ UNCHANGED <<pc, ncalls, loopvars, Iterators, Copies>>

\* CreateLambdaToCallUFunction<bool, const const_memory_transparent_reference&>
CallPredicate ==
    \E Function \in {"IsEven", "IsZero", "IsOne"}, index \in 0..(Num(TargetArray) - 1) :
        /\ ElementSizeOf(TargetArray) > 0
        /\ CallLambda(Function, <<index>>)

\* CreateLambdaToCallUFunction<bool, const const_memory_transparent_reference&,
\* const const_memory_transparent_reference&>
CallComparison ==
    \E Function \in {"Less", "Greater", "Equal"}, x \in 0..(Num(TargetArray) - 1),
       y \in 0..(Num(TargetArray) - 1) :
        /\ ElementSizeOf(TargetArray) > 0
        /\ CallLambda(Function, <<x, y>>)

\* ------------------------------------------------------------------------
\* The operations of the iterators, on two iterator objects over one array
\* ------------------------------------------------------------------------

\* the offsets the iterators are moved by
Offsets == (0 - 2)..2

\* one operation on the iterators: Operator with Arguments leaves
\* NewIterators and returns Return; an index stays within one step of the
\* array
IteratorStep(Operator, Arguments, NewIterators, Return) ==
    /\ pc = "idle"
    /\ \A p \in 1..Len(NewIterators) :
           /\ NewIterators[p].index >= 0 - 1
           /\ NewIterators[p].index <= Num(TargetArray) + 1
    /\ node' = Operator
    /\ arg' = Arguments
    /\ Iterators' = NewIterators
    /\ Copies' = Copies
    /\ outcome' = "returned"
    /\ Outputs(Return, <<>>)
    /\ UNCHANGED <<TargetArray, OldArray, pc, ncalls, loopvars, Entered,
                   Dirty, Invoked>>

\* begin(ArrayHelper, ElementProperty) and end(ArrayHelper, ElementProperty)
MakeIterators ==
    /\ Iterators = <<>>
    /\ IteratorStep("begin", [iterator |-> 1],
                    <<Iterator(begin(TargetArray)),
                      Iterator(end(TargetArray))>>, <<>>)

\* an iterator is replaced by a copy of one of the two
CopyConstructIterator ==
    \E p \in DOMAIN Iterators, q \in DOMAIN Iterators :
        IteratorStep("copy", [iterator |-> p],
                     [Iterators EXCEPT ![p] = CopyIterator(Iterators[q])],
                     <<>>)

\* Iterators[p] = Iterators[q]
AssignIterators ==
    \E p \in DOMAIN Iterators, q \in DOMAIN Iterators :
        IteratorStep("operator=", [iterator |-> p],
                     [Iterators EXCEPT
                          ![p] = AssignIterator(Iterators[p], Iterators[q])],
                     <<>>)

\* ++it, or it++ with the copy it returns kept as the other iterator
IncrementIterator ==
    \E p \in DOMAIN Iterators, postfix \in BOOLEAN :
        IteratorStep("operator++", [iterator |-> p],
                     [q \in DOMAIN Iterators |->
                         IF q = p THEN Advance(Iterators[p], 1)
                         ELSE IF postfix THEN CopyIterator(Iterators[p])
                         ELSE Iterators[q]],
                     <<>>)

\* --it, or it-- with the copy it returns kept as the other iterator
DecrementIterator ==
    \E p \in DOMAIN Iterators, postfix \in BOOLEAN :
        IteratorStep("operator--", [iterator |-> p],
                     [q \in DOMAIN Iterators |->
                         IF q = p THEN Advance(Iterators[p], 0 - 1)
                         ELSE IF postfix THEN CopyIterator(Iterators[p])
                         ELSE Iterators[q]],
                     <<>>)

\* it += offset, or it -= offset
AdvanceIterator ==
    \E p \in DOMAIN Iterators, offset \in Offsets, minus \in BOOLEAN :
        IteratorStep(IF minus THEN "operator-=" ELSE "operator+=",
                     [iterator |-> p],
                     [Iterators EXCEPT
                          ![p] = Advance(Iterators[p],
                                         IF minus THEN 0 - offset
                                                  ELSE offset)],
                     <<>>)

\* Iterators[q] + offset or Iterators[q] - offset, a copy that is moved,
\* kept as Iterators[p]
PlusIterator ==
    \E p \in DOMAIN Iterators, q \in DOMAIN Iterators, offset \in Offsets,
       minus \in BOOLEAN :
        IteratorStep(IF minus THEN "operator-" ELSE "operator+",
                     [iterator |-> p],
                     [Iterators EXCEPT
                          ![p] = Advance(CopyIterator(Iterators[q]),
                                         IF minus THEN 0 - offset
                                                  ELSE offset)],
                     <<>>)

\* *it of an iterator that points at an element; the algorithms do not
\* dereference any other
DereferenceIterator ==
    \E p \in DOMAIN Iterators :
        LET got == Dereference(Iterators[p])
        IN  /\ 0 <= Iterators[p].index
            /\ Iterators[p].index < Num(TargetArray)
            /\ IteratorStep("operator*",
                            [iterator |-> p, rebuilt |-> got.rebuilt,
                             cached |-> Iterators[p].ref],
                            [Iterators EXCEPT ![p] = got.iterator],
                            <<got.ref>>)

\* ------------------------------------------------------------------------
\* The specifications
\* ------------------------------------------------------------------------

\* the nodes that change the array or build new arrays from it
Next ==
    \/ SortAnyArray
    \/ Fill
    \/ FillRange
    \/ RemoveRange
    \/ RemoveIfCall
    \/ RemoveIfLoop
    \/ RemoveIfReturn
    \/ RandomSampleCall
    \/ RandomSampleLoop
    \/ RandomSampleReturn

Spec == Init /\ [][Next]_vars

\* the nodes that read the array and hand back a value
NextSearch ==
    \/ AdjacentFind
    \/ AllSatisfy
    \/ AnySatisfy
    \/ Count
    \/ CountIf
    \/ FindIf
    \/ Max
    \/ MaxElementIndex
    \/ Min
    \/ MinElementIndex
    \/ NoneSatisfy

SpecSearch == InitSearch /\ [][NextSearch]_vars

\* the nodes that are given the name of a function of the Object
NextLookup ==
    \/ SortAnyArray
    \/ RemoveIfCall
    \/ RemoveIfLoop
    \/ RemoveIfReturn
    \/ AdjacentFind
    \/ AllSatisfy
    \/ AnySatisfy
    \/ CountIf
    \/ FindIf
    \/ Max
    \/ MaxElementIndex
    \/ Min
    \/ MinElementIndex
    \/ NoneSatisfy

SpecLookup == InitSearch /\ [][NextLookup]_vars

\* RemoveIf alone; execRemoveIf runs GenericRemoveIf to its end within the
\* one call of the node, so a loop that can take a turn takes it and a
\* loop that can end ends
NextRemoveIf ==
    \/ RemoveIfCall
    \/ RemoveIfLoop
    \/ RemoveIfReturn

SpecRemoveIf ==
    /\ Init
    /\ [][NextRemoveIf]_vars
    /\ WF_vars(RemoveIfLoop)
    /\ WF_vars(RemoveIfReturn)

\* the operators of the references
NextReference ==
    \/ AssignReference
    \/ SwapReferences
    \/ EqualReferences
    \/ NotEqualReferences

SpecReference == InitReference /\ [][NextReference]_vars

\* the operators of the references while a copy of one of them lives
NextCopy ==
    \/ CopyConstructReference
    \/ AssignToCopy
    \/ AssignReference
    \/ SwapReferences

SpecCopy == InitReference /\ [][NextCopy]_vars

\* the operations of the iterators
NextIterator ==
    \/ MakeIterators
    \/ CopyConstructIterator
    \/ AssignIterators
    \/ IncrementIterator
    \/ DecrementIterator
    \/ AdvanceIterator
    \/ PlusIterator
    \/ DereferenceIterator

SpecIterator == Start(SearchScenarios) /\ [][NextIterator]_vars

\* the lambdas
NextMarshal ==
    \/ CallPredicate
    \/ CallComparison

SpecMarshal == Start(ByteArrays) /\ [][NextMarshal]_vars

\* ------------------------------------------------------------------------
\* Vocabulary of the properties
\* ------------------------------------------------------------------------

\* the last call was of Node and has returned
Returned(Node) == node = Node /\ outcome = "returned"

\* how often v occurs in a
Occurrences(a, v) == Cardinality({p \in 1..Len(a) : a[p] = v})

\* a and b hold the same elements, each as often
SameMultiset(a, b) ==
    \A v \in {a[p] : p \in 1..Len(a)} \cup {b[p] : p \in 1..Len(b)} :
        Occurrences(a, v) = Occurrences(b, v)

\* no element of a is cmp-before an element in front of it
IsOrdered(a, cmp) ==
    \A p \in 1..Len(a), q \in 1..Len(a) :
        p < q => ~ProcessEvent(cmp, <<a[q], a[p]>>)

\* cmp puts neither of x and y before the other
Equivalent(cmp, x, y) ==
    ~ProcessEvent(cmp, <<x, y>>) /\ ~ProcessEvent(cmp, <<y, x>>)

\* a holds two different elements that cmp treats as equivalent
HasEquivalentPair(a, cmp) ==
    \E p \in 1..Len(a), q \in 1..Len(a) :
        a[p] # a[q] /\ Equivalent(cmp, a[p], a[q])

\* ------------------------------------------------------------------------
\* SortAnyArray
\* ------------------------------------------------------------------------

\* C1: after SortAnyArray with a strict weak order the array has the length
\* it had, is a permutation of what it held, and no element is cmp-before an
\* element in front of it; [3,1,4,1,5] under less-than becomes [1,1,3,4,5].
C1_SortedPermutation ==
    Returned("SortAnyArray") =>
        /\ Num(TargetArray) = Num(OldArray)
        /\ SameMultiset(TargetArray, OldArray)
        /\ IsOrdered(TargetArray, arg.Function)
        /\ (OldArray = <<3, 1, 4, 1, 5>> /\ arg.Function = "Less")
               => TargetArray = <<1, 1, 3, 4, 5>>

C1_Witness ==
    /\ Returned("SortAnyArray")
    /\ arg.Function = "Less"
    /\ OldArray = <<3, 1, 4, 1, 5>>
    /\ TargetArray = <<1, 1, 3, 4, 5>>

\* C2 as stated: SortAnyArray of an array that is already sorted by cmp
\* leaves every position as it was, also when the array holds different
\* elements that cmp treats as equivalent.
C2_SortedInputUnchanged ==
    (Returned("SortAnyArray") /\ IsOrdered(OldArray, arg.Function))
        => TargetArray = OldArray

\* C2, amended: SortAnyArray of an array that is already sorted by cmp
\* leaves at every position an element equivalent under cmp to the one
\* that was there, and leaves every position as it was when cmp treats no
\* two different elements of the array as equivalent; so a second
\* SortAnyArray gives the array of the first up to the order of equivalent
\* elements.
C2_SortedInputEquivalent ==
    (Returned("SortAnyArray") /\ IsOrdered(OldArray, arg.Function)) =>
        /\ Num(TargetArray) = Num(OldArray)
        /\ \A p \in 1..Num(OldArray) :
               Equivalent(arg.Function, TargetArray[p], OldArray[p])
        /\ ~HasEquivalentPair(OldArray, arg.Function)
               => TargetArray = OldArray

C2_Witness ==
    /\ Returned("SortAnyArray")
    /\ ncalls = 2
    /\ IsOrdered(OldArray, arg.Function)
    /\ HasEquivalentPair(OldArray, arg.Function)
    /\ TargetArray # OldArray

\* a second witness of C2: a sorted array without equivalent elements is
\* sorted again
C2_DistinctWitness ==
    /\ Returned("SortAnyArray")
    /\ ncalls = 2
    /\ Num(OldArray) > 1
    /\ IsOrdered(OldArray, arg.Function)
    /\ ~HasEquivalentPair(OldArray, arg.Function)

\* ------------------------------------------------------------------------
\* RandomSample
\* ------------------------------------------------------------------------

\* the smaller of two integers
Smaller(x, y) == IF x < y THEN x ELSE y

\* the indices a sequence of indices holds
IndexSet(from) == {from[p] : p \in 1..Len(from)}

\* the elements of a at the indices of from, in the order of from
Picked(a, from) == [p \in 1..Len(from) |-> At(a, from[p])]

\* the indices of from ascend
Ascending(from) ==
    \A p \in 1..Len(from), q \in 1..Len(from) : p < q => from[p] < from[q]

\* C3 as stated: for every NumOfSamples, also a negative one, RandomSample
\* returns min(NumOfSamples, length) elements in Samples.
C3_SampleCountIsMin ==
    Returned("RandomSample")
        => Num(Samples) = Smaller(arg.NumOfSamples, Num(TargetArray))

\* C3, amended: RandomSample returns min(NumOfSamples, length) elements in
\* Samples when NumOfSamples is 0 or more, whatever is drawn; a negative
\* NumOfSamples becomes a large unsigned count and every element goes to
\* Samples.
C3_SampleCount ==
    Returned("RandomSample") =>
        Num(Samples) = IF arg.NumOfSamples < 0
                           THEN Num(TargetArray)
                           ELSE Smaller(arg.NumOfSamples, Num(TargetArray))

C3_Witness ==
    /\ Returned("RandomSample")
    /\ arg.NumOfSamples > 0
    /\ arg.NumOfSamples < Num(TargetArray)
    /\ Num(Samples) = arg.NumOfSamples
    /\ Num(Others) > 0

\* a second witness of C3: a negative NumOfSamples on an array with elements
C3_NegativeWitness ==
    /\ Returned("RandomSample")
    /\ arg.NumOfSamples < 0
    /\ Num(TargetArray) > 0
    /\ Num(Samples) = Num(TargetArray)

\* C4: RandomSample puts every position of the array into Samples or into
\* Others, no position twice and none into both, so the two lengths add up
\* to the length of the array; an empty array gives two empty arrays.
C4_SamplePartition ==
    Returned("RandomSample") =>
        /\ Samples = Picked(TargetArray, SamplesFrom)
        /\ Others = Picked(TargetArray, OthersFrom)
        /\ IndexSet(SamplesFrom) \cup IndexSet(OthersFrom)
               = 0..(Num(TargetArray) - 1)
        /\ IndexSet(SamplesFrom) \cap IndexSet(OthersFrom) = {}
        /\ Cardinality(IndexSet(SamplesFrom)) = Num(Samples)
        /\ Cardinality(IndexSet(OthersFrom)) = Num(Others)
        /\ Num(Samples) + Num(Others) = Num(TargetArray)
        /\ Num(TargetArray) = 0 => (Samples = <<>> /\ Others = <<>>)

C4_Witness ==
    /\ Returned("RandomSample")
    /\ Num(Samples) > 0
    /\ Num(Others) > 1
    /\ Num(Samples) + Num(Others) = Num(TargetArray)

\* a second witness of C4: RandomSample of an empty array
C4_EmptyWitness ==
    /\ Returned("RandomSample")
    /\ Num(TargetArray) = 0
    /\ arg.NumOfSamples > 0
    /\ Samples = <<>>
    /\ Others = <<>>

\* C5: in Samples, and in Others, the elements stand in the order of their
\* positions in the array: of two positions that end in the same output the
\* earlier one comes first.
C5_SampleOrder ==
    (node = "RandomSample" /\ outcome \in {"running", "returned"}) =>
        /\ Ascending(SamplesFrom)
        /\ Ascending(OthersFrom)
        /\ Samples = Picked(TargetArray, SamplesFrom)
        /\ Others = Picked(TargetArray, OthersFrom)

C5_Witness ==
    /\ Returned("RandomSample")
    /\ Num(Samples) > 1
    /\ Num(Others) > 1
    /\ Samples[1] # Samples[2]
    /\ Others[1] # Others[2]

\* C6: with NumOfSamples at least the length of the array, RandomSample
\* returns normally with every element in Samples, in the order of the
\* array, and with Others empty, whatever is drawn.
C6_AllSampled ==
    (node = "RandomSample" /\ pc = "idle"
        /\ arg.NumOfSamples >= Num(TargetArray)) =>
        /\ outcome = "returned"
        /\ Samples = TargetArray
        /\ Others = <<>>

C6_Witness ==
    /\ Returned("RandomSample")
    /\ Num(TargetArray) > 1
    /\ arg.NumOfSamples > Num(TargetArray)
    /\ Samples = TargetArray
    /\ Others = <<>>

\* ------------------------------------------------------------------------
\* RemoveIf, RemoveRange
\* ------------------------------------------------------------------------

\* the elements of a for which the predicate returns false, in their order
Kept(a, Predicate) ==
    SelectSeq(a, LAMBDA e : ~ProcessEvent(Predicate, <<e>>))

\* C7: after RemoveIf the array is the elements it held for which the
\* predicate returned false, in the order they had; a predicate that is
\* false for every element leaves the array as it was and one that is true
\* for every element leaves it empty.
C7_RemoveIfKeepsRest ==
    Returned("RemoveIf") =>
        /\ TargetArray = Kept(OldArray, arg.Function)
        /\ arg.Function = "NeverTrue" => TargetArray = OldArray
        /\ arg.Function = "Always" => TargetArray = <<>>

C7_Witness ==
    /\ Returned("RemoveIf")
    /\ arg.Function = "IsEven"
    /\ Num(OldArray) - Num(TargetArray) > 1
    /\ Num(TargetArray) > 1

\* the elements of a in front of index first, then those from index last on
Without(a, first, last) ==
    [p \in 1..(Num(a) - (last - first)) |->
        IF p <= first THEN a[p] ELSE a[p + (last - first)]]

\* C8: RemoveRange erases the elements at the indices from StartIndex up to,
\* not including, EndIndex: what is left is the elements in front of
\* StartIndex and then those from EndIndex on, EndIndex - StartIndex fewer;
\* with StartIndex equal to EndIndex the array stays as it was;
\* RemoveRange([1,2,3,4,5], 1, 3) gives [1,4,5].
C8_RemoveRangeErases ==
    Returned("RemoveRange") =>
        /\ Num(TargetArray) = Num(OldArray) - (arg.EndIndex - arg.StartIndex)
        /\ TargetArray = Without(OldArray, arg.StartIndex, arg.EndIndex)
        /\ arg.StartIndex = arg.EndIndex => TargetArray = OldArray
        /\ (OldArray = <<1, 2, 3, 4, 5>> /\ arg.StartIndex = 1
               /\ arg.EndIndex = 3) => TargetArray = <<1, 4, 5>>

C8_Witness ==
    /\ Returned("RemoveRange")
    /\ OldArray = <<1, 2, 3, 4, 5>>
    /\ arg.StartIndex = 1
    /\ arg.EndIndex = 3
    /\ TargetArray = <<1, 4, 5>>

\* a second witness of C8: an empty range
C8_EmptyWitness ==
    /\ Returned("RemoveRange")
    /\ arg.StartIndex = arg.EndIndex
    /\ arg.StartIndex > 0
    /\ Num(TargetArray) > arg.StartIndex
    /\ TargetArray = OldArray

\* ------------------------------------------------------------------------
\* Fill, FillRange
\* ------------------------------------------------------------------------

\* C9: FillRange on a range of the array writes Value to every index from
\* StartIndex up to, not including, EndIndex, and leaves the other elements
\* and the length as they were; with StartIndex equal to EndIndex nothing
\* is written.
C9_FillRangeFrame ==
    Returned("FillRange") =>
        /\ Num(TargetArray) = Num(OldArray)
        /\ \A index \in 0..(Num(OldArray) - 1) :
               At(TargetArray, index) =
                   IF arg.StartIndex <= index /\ index < arg.EndIndex
                       THEN arg.Value
                       ELSE At(OldArray, index)
        /\ arg.StartIndex = arg.EndIndex => TargetArray = OldArray

C9_Witness ==
    /\ Returned("FillRange")
    /\ arg.StartIndex > 0
    /\ arg.EndIndex > arg.StartIndex
    /\ arg.EndIndex < Num(OldArray)
    /\ At(OldArray, arg.StartIndex) # arg.Value
    /\ At(TargetArray, arg.StartIndex) = arg.Value
    /\ At(TargetArray, 0) # arg.Value
    /\ At(TargetArray, arg.EndIndex) # arg.Value

\* a second witness of C9: an empty range
C9_EmptyWitness ==
    /\ Returned("FillRange")
    /\ arg.StartIndex = arg.EndIndex
    /\ arg.StartIndex < Num(OldArray)
    /\ arg.StartIndex >= 0
    /\ At(OldArray, arg.StartIndex) # arg.Value
    /\ TargetArray = OldArray

\* C10: Fill leaves the array as FillRange from 0 to its length leaves it,
\* and FillRange from 0 to the length as Fill leaves it: every element is
\* Value and the length is as it was, also for the empty array.
C10_FillIsFullRange ==
    /\ Returned("Fill") =>
           /\ TargetArray = GenericFillRange(OldArray, 0, Num(OldArray),
                                             arg.Value).array
           /\ Num(TargetArray) = Num(OldArray)
           /\ \A p \in 1..Num(TargetArray) : TargetArray[p] = arg.Value
    /\ (Returned("FillRange") /\ arg.StartIndex = 0
           /\ arg.EndIndex = Num(OldArray)) =>
           /\ TargetArray = GenericFill(OldArray, arg.Value).array
           /\ Num(TargetArray) = Num(OldArray)
           /\ \A p \in 1..Num(TargetArray) : TargetArray[p] = arg.Value

C10_Witness ==
    /\ Returned("Fill")
    /\ Num(OldArray) > 1
    /\ OldArray[1] # OldArray[2]
    /\ TargetArray = GenericFillRange(OldArray, 0, Num(OldArray),
                                      arg.Value).array

\* a second witness of C10: FillRange over a whole array
C10_RangeWitness ==
    /\ Returned("FillRange")
    /\ arg.StartIndex = 0
    /\ arg.EndIndex = Num(OldArray)
    /\ Num(OldArray) > 1
    /\ OldArray[1] # OldArray[2]
    /\ TargetArray = GenericFill(OldArray, arg.Value).array

\* a third witness of C10: Fill of the empty array
C10_EmptyWitness ==
    /\ Returned("Fill")
    /\ OldArray = <<>>
    /\ TargetArray = <<>>

\* ------------------------------------------------------------------------
\* Count, CountIf, AllSatisfy, AnySatisfy, NoneSatisfy
\* ------------------------------------------------------------------------

\* the predicate of the Object that is true of the elements equal to V
EqualTo == [V \in {0, 1} |-> IF V = 0 THEN "IsZero" ELSE "IsOne"]

\* the positions of a whose element satisfies the predicate
Satisfying(a, Predicate) ==
    {p \in 1..Len(a) : ProcessEvent(Predicate, <<a[p]>>)}

\* C11: Count of a value returns what CountIf returns for the predicate
\* "equal to the value": the number of positions whose element is the
\* value, which is 0 at least and the length of the array at most.
C11_CountIsCountIf ==
    /\ Returned("Count") =>
           /\ ReturnValue =
                  <<Cardinality({p \in 1..Num(TargetArray) :
                                    TargetArray[p] = arg.Value})>>
           /\ ReturnValue[1] \in 0..Num(TargetArray)
           /\ arg.Value \in DOMAIN EqualTo =>
                  ReturnValue[1] = GenericCountIf(TargetArray,
                                                  EqualTo[arg.Value])
    /\ Returned("CountIf") =>
           /\ ReturnValue =
                  <<Cardinality(Satisfying(TargetArray, arg.Function))>>
           /\ \A V \in DOMAIN EqualTo :
                  EqualTo[V] = arg.Function =>
                      ReturnValue[1] = GenericCount(TargetArray, V)

C11_Witness ==
    /\ Returned("Count")
    /\ arg.Value = 1
    /\ Num(TargetArray) > 2
    /\ ReturnValue = <<2>>
    /\ GenericCountIf(TargetArray, "IsOne") = 2

\* a second witness of C11: CountIf with an equality predicate
C11_CountIfWitness ==
    /\ Returned("CountIf")
    /\ arg.Function = "IsZero"
    /\ ReturnValue = <<2>>
    /\ Num(TargetArray) > 2

\* C12: AllSatisfy of a predicate is the negation of AnySatisfy of the
\* negated predicate, and NoneSatisfy the negation of AnySatisfy of the
\* predicate itself; on the empty array AllSatisfy and NoneSatisfy return
\* true and AnySatisfy returns false.
C12_SatisfyDuality ==
    /\ Returned("AllSatisfy") =>
           /\ ReturnValue =
                  <<~GenericAnySatisfy(TargetArray, Negation(arg.Function))>>
           /\ Num(TargetArray) = 0 => ReturnValue = <<TRUE>>
    /\ Returned("NoneSatisfy") =>
           /\ ReturnValue = <<~GenericAnySatisfy(TargetArray, arg.Function)>>
           /\ ReturnValue = <<Satisfying(TargetArray, arg.Function) = {}>>
           /\ Num(TargetArray) = 0 => ReturnValue = <<TRUE>>
    /\ Returned("AnySatisfy") =>
           /\ ReturnValue =
                  <<~GenericAllSatisfy(TargetArray, Negation(arg.Function))>>
           /\ ReturnValue = <<~GenericNoneSatisfy(TargetArray, arg.Function)>>
           /\ ReturnValue = <<Satisfying(TargetArray, arg.Function) # {}>>
           /\ Num(TargetArray) = 0 => ReturnValue = <<FALSE>>

C12_Witness ==
    /\ Returned("AllSatisfy")
    /\ ReturnValue = <<FALSE>>
    /\ ProcessEvent(arg.Function, <<TargetArray[1]>>)
    /\ GenericAnySatisfy(TargetArray, Negation(arg.Function))

\* a second witness of C12: the three nodes on the empty array
C12_EmptyWitness ==
    /\ Num(TargetArray) = 0
    /\ arg.Function = "IsEven"
    /\ \/ Returned("AllSatisfy") /\ ReturnValue = <<TRUE>>
       \/ Returned("NoneSatisfy") /\ ReturnValue = <<TRUE>>
       \/ Returned("AnySatisfy") /\ ReturnValue = <<FALSE>>

\* ------------------------------------------------------------------------
\* FindIf, AdjacentFind
\* ------------------------------------------------------------------------

\* the positions of a whose element and the next one satisfy the predicate
SatisfyingPairs(a, BinaryPredicate) ==
    {p \in 1..(Len(a) - 1) : ProcessEvent(BinaryPredicate, <<a[p], a[p + 1]>>)}

\* the least number of a set of numbers that is not empty
Least(S) == CHOOSE x \in S : \A y \in S : x <= y

\* C13: when some element satisfies the predicate, FindIf returns the
\* smallest index whose element satisfies it; the predicate is false on
\* every element in front of that index.
C13_FindIfFirst ==
    (Returned("FindIf") /\ Satisfying(TargetArray, arg.Function) # {}) =>
        /\ ReturnValue = <<Least(Satisfying(TargetArray, arg.Function)) - 1>>
        /\ ReturnValue[1] \in 0..(Num(TargetArray) - 1)
        /\ ProcessEvent(arg.Function, <<At(TargetArray, ReturnValue[1])>>)
        /\ \A index \in 0..(ReturnValue[1] - 1) :
               ~ProcessEvent(arg.Function, <<At(TargetArray, index)>>)

C13_Witness ==
    /\ Returned("FindIf")
    /\ ReturnValue = <<1>>
    /\ Cardinality(Satisfying(TargetArray, arg.Function)) > 1

\* C14: when some element and the one after it satisfy the binary
\* predicate, AdjacentFind returns the smallest index of such an element,
\* the predicate being given the earlier element first; [3,1,1,4,5] with
\* equality gives 1; on an array of 0 or 1 elements the predicate is not
\* invoked.
C14_AdjacentFindFirst ==
    Returned("AdjacentFind") =>
        /\ SatisfyingPairs(TargetArray, arg.Function) # {} =>
               /\ ReturnValue =
                      <<Least(SatisfyingPairs(TargetArray, arg.Function)) - 1>>
               /\ ReturnValue[1] \in 0..(Num(TargetArray) - 2)
        /\ (TargetArray = <<3, 1, 1, 4, 5>> /\ arg.Function = "Equal")
               => ReturnValue = <<1>>
        /\ Num(TargetArray) <= 1 =>
               adjacent_find(TargetArray, begin(TargetArray),
                             end(TargetArray), arg.Function).calls = <<>>

C14_Witness ==
    /\ Returned("AdjacentFind")
    /\ TargetArray = <<3, 1, 1, 4, 5>>
    /\ arg.Function = "Equal"
    /\ ReturnValue = <<1>>

\* a second witness of C14: the order of the two arguments matters
C14_OrderWitness ==
    /\ Returned("AdjacentFind")
    /\ arg.Function = "Less"
    /\ ReturnValue = <<1>>
    /\ At(TargetArray, 0) > At(TargetArray, 1)
    /\ At(TargetArray, 1) < At(TargetArray, 2)

\* a third witness of C14: an array of one element
C14_SingleWitness ==
    /\ Returned("AdjacentFind")
    /\ Num(TargetArray) = 1
    /\ arg.Function = "Equal"

\* C15 as stated: when no element and the one after it satisfy the
\* predicate, AdjacentFind returns the length of the array.
C15_NotFoundIsLength ==
    (Returned("AdjacentFind")
        /\ SatisfyingPairs(TargetArray, arg.Function) = {})
        => ReturnValue = <<Num(TargetArray)>>

\* C15, amended: when no element and the one after it satisfy the
\* predicate, also in an array of 0 or 1 elements, AdjacentFind returns
\* INDEX_NONE, which is -1 and not the length of the array.
C15_NotFoundIsIndexNone ==
    (Returned("AdjacentFind")
        /\ SatisfyingPairs(TargetArray, arg.Function) = {}) =>
        /\ ReturnValue = <<INDEX_NONE>>
        /\ ReturnValue[1] = 0 - 1
        /\ ReturnValue[1] # Num(TargetArray)

C15_Witness ==
    /\ Returned("AdjacentFind")
    /\ Num(TargetArray) > 2
    /\ arg.Function = "Equal"
    /\ SatisfyingPairs(TargetArray, arg.Function) = {}
    /\ ReturnValue = <<INDEX_NONE>>

\* a second witness of C15: the empty array
C15_EmptyWitness ==
    /\ Returned("AdjacentFind")
    /\ Num(TargetArray) = 0
    /\ arg.Function = "Equal"
    /\ ReturnValue = <<INDEX_NONE>>

\* C16: a search that fails returns INDEX_NONE, which is -1 and no index of
\* the array: FindIf when no element satisfies the predicate, AdjacentFind
\* when no adjacent pair does, MaxElementIndex and MinElementIndex exactly
\* when the array is empty; what the four return otherwise is an index of
\* the array.
C16_IndexNoneOrIndex ==
    /\ INDEX_NONE = 0 - 1
    /\ Returned("FindIf") =>
           IF Satisfying(TargetArray, arg.Function) = {}
               THEN ReturnValue = <<INDEX_NONE>>
               ELSE ReturnValue[1] \in 0..(Num(TargetArray) - 1)
    /\ Returned("AdjacentFind") =>
           IF SatisfyingPairs(TargetArray, arg.Function) = {}
               THEN ReturnValue = <<INDEX_NONE>>
               ELSE ReturnValue[1] \in 0..(Num(TargetArray) - 1)
    /\ (Returned("MaxElementIndex") \/ Returned("MinElementIndex")) =>
           IF Num(TargetArray) = 0
               THEN ReturnValue = <<INDEX_NONE>>
               ELSE ReturnValue[1] \in 0..(Num(TargetArray) - 1)

C16_Witness ==
    /\ Returned("FindIf")
    /\ Num(TargetArray) > 1
    /\ arg.Function = "IsOne"
    /\ ReturnValue = <<INDEX_NONE>>

\* a second witness of C16: MinElementIndex of the empty array
C16_EmptyWitness ==
    /\ Returned("MinElementIndex")
    /\ Num(TargetArray) = 0
    /\ ReturnValue = <<INDEX_NONE>>

\* ------------------------------------------------------------------------
\* Max, MaxElementIndex, Min, MinElementIndex
\* ------------------------------------------------------------------------

\* C17: on an array that is not empty MaxElementIndex returns an index
\* whose element is cmp-before no element of the array, and
\* MinElementIndex an index whose element no element of the array is
\* cmp-before; MaxElementIndex of [3,1,4,1,5] under less-than is 4.
C17_ExtremumIndex ==
    /\ (Returned("MaxElementIndex") /\ Num(TargetArray) > 0) =>
           /\ ReturnValue[1] \in 0..(Num(TargetArray) - 1)
           /\ \A p \in 1..Num(TargetArray) :
                  ~ProcessEvent(arg.Function,
                                <<At(TargetArray, ReturnValue[1]),
                                  TargetArray[p]>>)
           /\ (TargetArray = <<3, 1, 4, 1, 5>> /\ arg.Function = "Less")
                  => ReturnValue = <<4>>
    /\ (Returned("MinElementIndex") /\ Num(TargetArray) > 0) =>
           /\ ReturnValue[1] \in 0..(Num(TargetArray) - 1)
           /\ \A p \in 1..Num(TargetArray) :
                  ~ProcessEvent(arg.Function,
                                <<TargetArray[p],
                                  At(TargetArray, ReturnValue[1])>>)

C17_Witness ==
    /\ Returned("MaxElementIndex")
    /\ TargetArray = <<3, 1, 4, 1, 5>>
    /\ arg.Function = "Less"
    /\ ReturnValue = <<4>>

\* a second witness of C17: MinElementIndex behind the first element
C17_MinWitness ==
    /\ Returned("MinElementIndex")
    /\ arg.Function = "Less"
    /\ ReturnValue[1] > 0

\* C18: on the empty array GenericMax and GenericMin return null without
\* invoking the comparison function, and Max and Min return normally and
\* write nothing to the MaxValue / MinValue pin; on an array that is not
\* empty they copy the element at MaxElementIndex / MinElementIndex to it.
C18_ExtremumOfEmpty ==
    /\ Returned("Max") =>
           IF Num(TargetArray) = 0
               THEN /\ GenericMax(TargetArray, arg.Function) = nullptr
                    /\ max_element(TargetArray, begin(TargetArray),
                                   end(TargetArray), arg.Function).calls = <<>>
                    /\ OutValue = <<>>
               ELSE OutValue =
                        <<At(TargetArray,
                             GenericMaxElementIndex(TargetArray,
                                                    arg.Function))>>
    /\ Returned("Min") =>
           IF Num(TargetArray) = 0
               THEN /\ GenericMin(TargetArray, arg.Function) = nullptr
                    /\ min_element(TargetArray, begin(TargetArray),
                                   end(TargetArray), arg.Function).calls = <<>>
                    /\ OutValue = <<>>
               ELSE OutValue =
                        <<At(TargetArray,
                             GenericMinElementIndex(TargetArray,
                                                    arg.Function))>>
    /\ (node \in {"Max", "Min"} /\ Num(TargetArray) = 0
           /\ arg.Function # MissingName) => outcome = "returned"

C18_Witness ==
    /\ Returned("Max")
    /\ Num(TargetArray) = 0
    /\ arg.Function = "Less"
    /\ OutValue = <<>>

\* a second witness of C18: Max of an array whose greatest element is not
\* the first
C18_ElementWitness ==
    /\ Returned("Max")
    /\ arg.Function = "Less"
    /\ Num(TargetArray) > 1
    /\ OutValue # <<>>
    /\ OutValue # <<TargetArray[1]>>

\* ------------------------------------------------------------------------
\* operator=, swap, operator==, operator!=
\* ------------------------------------------------------------------------

\* the elements of b other than those at the indices in S are what they
\* were in a
SameExcept(a, b, S) ==
    /\ Len(a) = Len(b)
    /\ \A p \in 1..Len(a) : (p - 1) \notin S => a[p] = b[p]

\* C19: an assignment between, or a swap of, two references whose
\* properties are not of the same type ends with std::invalid_argument and
\* leaves every element as it was; when they are of the same type the
\* assignment makes the target equal to what the source was and the swap
\* exchanges the two targets, and both leave every other element alone.
C19_TypeMismatch ==
    /\ node = "operator=" =>
           IF ~SameType(arg.a.property, arg.b.property)
               THEN /\ outcome = "std::invalid_argument"
                    /\ TargetArray = OldArray
               ELSE /\ outcome = "returned"
                    /\ Target(TargetArray, arg.a) = Target(OldArray, arg.b)
                    /\ SameExcept(OldArray, TargetArray, {arg.a.target_ptr})
    /\ node = "swap" =>
           IF ~SameType(arg.a.property, arg.b.property)
               THEN /\ outcome = "std::invalid_argument"
                    /\ TargetArray = OldArray
               ELSE /\ outcome = "returned"
                    /\ Target(TargetArray, arg.a) = Target(OldArray, arg.b)
                    /\ Target(TargetArray, arg.b) = Target(OldArray, arg.a)
                    /\ SameExcept(OldArray, TargetArray,
                                  {arg.a.target_ptr, arg.b.target_ptr})

C19_Witness ==
    /\ node = "operator="
    /\ arg.a.property.class # arg.b.property.class
    /\ Target(OldArray, arg.a) # Target(OldArray, arg.b)
    /\ outcome = "std::invalid_argument"

\* a second witness of C19: a swap refused
C19_SwapMismatchWitness ==
    /\ node = "swap"
    /\ arg.a.property.class # arg.b.property.class
    /\ Target(OldArray, arg.a) # Target(OldArray, arg.b)
    /\ outcome = "std::invalid_argument"

\* a third witness of C19: an assignment between elements of two arrays
\* of integers
C19_AssignWitness ==
    /\ node = "operator="
    /\ arg.a.property # arg.b.property
    /\ outcome = "returned"
    /\ TargetArray # OldArray

\* a fourth witness of C19: a swap of two elements of one array
C19_SwapWitness ==
    /\ node = "swap"
    /\ arg.a.property = arg.b.property
    /\ outcome = "returned"
    /\ TargetArray # OldArray

\* C20: comparing two references always returns and changes nothing:
\* operator== is false when the properties are not of the same type and
\* otherwise whether the two targets are identical; operator!= is the
\* negation of operator==.
C20_EqualNeverRaises ==
    /\ node \in {"operator==", "operator!="} =>
           /\ outcome = "returned"
           /\ TargetArray = OldArray
    /\ node = "operator==" =>
           IF arg.a.property.class # arg.b.property.class
               THEN ReturnValue = <<FALSE>>
               ELSE ReturnValue =
                        <<Target(TargetArray, arg.a)
                              = Target(TargetArray, arg.b)>>
    /\ node = "operator!=" =>
           ReturnValue = <<~operator_eq(TargetArray, arg.a, arg.b)>>

C20_Witness ==
    /\ node = "operator=="
    /\ arg.a.property.class # arg.b.property.class
    /\ Target(TargetArray, arg.a) = Target(TargetArray, arg.b)
    /\ ReturnValue = <<FALSE>>

\* a second witness of C20: equal elements of two arrays of integers
C20_EqualWitness ==
    /\ node = "operator=="
    /\ arg.a.property # arg.b.property
    /\ ReturnValue = <<TRUE>>

\* a third witness of C20: operator!= of references of different types
\* whose targets hold the same
C20_NotEqualWitness ==
    /\ node = "operator!="
    /\ arg.a.property.class # arg.b.property.class
    /\ Target(TargetArray, arg.a) = Target(TargetArray, arg.b)
    /\ ReturnValue = <<TRUE>>

\* ------------------------------------------------------------------------
\* A function that is not found
\* ------------------------------------------------------------------------

\* C21: a node given a name that no function of the Object has finishes
\* without reaching its Generic function: no callback is invoked, nothing
\* is written to the return value or the output pin, the array is what it
\* was and its property is not marked dirty; and only such a node ends
\* that way.
C21_NotFoundDoesNothing ==
    node # "none" =>
        IF FindFunction(arg.Function) = "nullptr"
            THEN /\ outcome = "not found"
                 /\ pc = "idle"
                 /\ ~Entered
                 /\ Invoked = <<>>
                 /\ ReturnValue = <<>>
                 /\ OutValue = <<>>
                 /\ TargetArray = OldArray
                 /\ ~Dirty
            ELSE /\ outcome # "not found"
                 /\ Entered

C21_Witness ==
    /\ node = "RemoveIf"
    /\ arg.Function = MissingName
    /\ Num(TargetArray) > 1
    /\ outcome = "not found"

\* a second witness of C21: SortAnyArray of an array that is out of order
C21_SortWitness ==
    /\ node = "SortAnyArray"
    /\ arg.Function = MissingName
    /\ Num(TargetArray) > 1
    /\ At(TargetArray, 0) > At(TargetArray, 1)
    /\ outcome = "not found"

\* a third witness of C21: FindIf after a node that did write a result
C21_FindIfWitness ==
    /\ node = "FindIf"
    /\ arg.Function = MissingName
    /\ ncalls > 1
    /\ Num(TargetArray) > 0
    /\ outcome = "not found"

\* ------------------------------------------------------------------------
\* Iterators
\* ------------------------------------------------------------------------

\* the iterators GenericFill(TargetArray, ArrayProperty, StartIndex,
\* EndIndex, Value) hands to std::fill, on the array it was called with
FillRangeIterators ==
    {begin(OldArray) + arg.StartIndex, begin(OldArray) + arg.EndIndex}

\* C22: in every call the index of every iterator is between 0 and the
\* length of the array, begin() being 0 and end() the length, and an
\* iterator is dereferenced only below the length: the two iterators
\* FillRange makes of StartIndex and EndIndex, the iterator of the loop of
\* RandomSample, and the elements handed to a callback.
C22_IteratorsInRange ==
    /\ begin(TargetArray) = 0
    /\ end(TargetArray) = Num(TargetArray)
    /\ node = "FillRange" =>
           \A index \in FillRangeIterators :
               0 <= index /\ index <= Num(OldArray)
    /\ node = "RandomSample" =>
           /\ 0 <= it /\ it <= Num(TargetArray)
           /\ \A k \in 1..Len(SamplesFrom) : SamplesFrom[k] < Num(TargetArray)
           /\ \A k \in 1..Len(OthersFrom) : OthersFrom[k] < Num(TargetArray)
    /\ \A k \in 1..Len(Invoked) :
           \A n \in 1..Len(Invoked[k].at) :
               0 <= Invoked[k].at[n] /\ Invoked[k].at[n] < Num(OldArray)

\* ------------------------------------------------------------------------
\* Marshalling
\* ------------------------------------------------------------------------

\* the elements of a as numbers
Decoded(a) == [p \in 1..Len(a) |-> Decode(a[p])]

\* C23: the working memory handed to the function is n * S + sizeof(bool)
\* bytes long and holds the bytes of the i-th argument from offset
\* (i - 1) * S on; what the lambda returns is the bool the function left at
\* offset n * S, which is what the function says of the arguments in their
\* order; and the array is as it was.
C23_Marshalling ==
    node = "lambda" =>
        LET S == arg.ElementSize
            n == Len(arg.args)
            handed == Invoked[1].buffer
            left == ProcessEventBytes(arg.Function, handed, S, n)
        IN  /\ Len(Invoked) = 1
            /\ Len(handed) = n * S + 1
            /\ Len(handed) = PredicateParamSize(S, n)
            /\ \A k \in 1..n : \A byte \in 1..S :
                   handed[(k - 1) * S + byte]
                       = At(OldArray, arg.args[k])[byte]
            /\ ReturnValue = <<left[n * S + 1] # 0>>
            /\ ReturnValue =
                   <<ProcessEvent(arg.Function,
                                  [k \in 1..n |->
                                      At(Decoded(OldArray), arg.args[k])])>>
            /\ TargetArray = OldArray

C23_Witness ==
    /\ node = "lambda"
    /\ arg.Function = "Less"
    /\ arg.ElementSize = 2
    /\ Decode(At(OldArray, arg.args[1])) < Decode(At(OldArray, arg.args[2]))
    /\ Invoked[1].buffer[1] # Invoked[1].buffer[2]
    /\ ReturnValue = <<TRUE>>

\* a second witness of C23: a unary function, the working memory holding
\* something else behind the argument before the call
C23_UnaryWitness ==
    /\ node = "lambda"
    /\ arg.Function = "IsZero"
    /\ Len(Invoked[1].buffer) = 2
    /\ Invoked[1].buffer = <<0, MaxElem>>
    /\ ReturnValue = <<TRUE>>

\* C24: whatever was done to the iterators before, dereferencing one whose
\* index is below the length returns a reference to the element at that
\* index; the cached reference is returned without being rebuilt only if
\* it is a reference to that index, and is rebuilt if it is one to another.
C24_DereferenceTarget ==
    node = "operator*" =>
        LET this == Iterators[arg.iterator]
        IN  /\ ReturnValue[1].target_ptr = this.index
            /\ ReturnValue[1].new_target_ptr = <<>>
            /\ Target(TargetArray, ReturnValue[1])
                   = At(TargetArray, this.index)
            /\ ~arg.rebuilt =>
                   /\ arg.cached # <<>>
                   /\ arg.cached[1].target_ptr = this.index
            /\ (arg.cached # <<>> /\ arg.cached[1].target_ptr # this.index)
                   => arg.rebuilt

C24_Witness ==
    /\ node = "operator*"
    /\ arg.rebuilt
    /\ arg.cached # <<>>
    /\ arg.cached[1].target_ptr # Iterators[arg.iterator].index
    /\ ReturnValue[1].target_ptr = Iterators[arg.iterator].index

\* a second witness of C24: the cached reference is returned again
C24_ReuseWitness ==
    /\ node = "operator*"
    /\ ~arg.rebuilt
    /\ Iterators[arg.iterator].index > 0

\* ------------------------------------------------------------------------
\* The order and the number of the callback invocations
\* ------------------------------------------------------------------------

\* the positions of a whose element makes the scan of Node stop: the
\* elements that do not satisfy Predicate for AllSatisfy, those that do for
\* the others
Stopping(Node, a, Predicate) ==
    {p \in 1..Len(a) :
        ProcessEvent(Predicate, <<a[p]>>) = (Node # "AllSatisfy")}

\* C25: AllSatisfy, AnySatisfy, NoneSatisfy and FindIf invoke the predicate
\* on the elements at index 0, 1, 2, ... in this order, once each, up to
\* and including the first element that satisfies it (for AllSatisfy: that
\* does not), and on every element if there is none.
C25_ShortCircuit ==
    (node \in {"AllSatisfy", "AnySatisfy", "NoneSatisfy", "FindIf"}
        /\ outcome = "returned") =>
        LET stops == Stopping(node, TargetArray, arg.Function)
            n == IF stops = {} THEN Num(TargetArray) ELSE Least(stops)
        IN  /\ Len(Invoked) = n
            /\ \A k \in 1..Len(Invoked) :
                   /\ Invoked[k].at = <<k - 1>>
                   /\ Invoked[k].buffer = <<At(TargetArray, k - 1)>>

C25_Witness ==
    /\ Returned("AnySatisfy")
    /\ Num(TargetArray) = 3
    /\ Len(Invoked) = 2

\* a second witness of C25: AllSatisfy stops at the first element
C25_AllWitness ==
    /\ Returned("AllSatisfy")
    /\ Num(TargetArray) = 3
    /\ Len(Invoked) = 1

\* a third witness of C25: FindIf finds nothing
C25_NoneWitness ==
    /\ Returned("FindIf")
    /\ Num(TargetArray) = 3
    /\ ReturnValue = <<INDEX_NONE>>
    /\ Len(Invoked) = 3

\* how many of the first n invocations the predicate was true of
Accepted(n) ==
    Cardinality({j \in 1..n :
                    ProcessEvent(arg.Function, Invoked[j].buffer)})

\* C26: RemoveIf invokes the predicate on the elements of the array it was
\* called with, from the first to the last, once each: the k-th
\* invocation is on the element that was k-th, which by then has moved
\* down by the number of elements removed; after a removal at index i the
\* next invocation is at index i again, otherwise at i + 1, and when the
\* node returns every element has been tested.
C26_RemoveIfSinglePass ==
    (node = "RemoveIf" /\ outcome # "not found") =>
        /\ Len(Invoked) <= Num(OldArray)
        /\ \A k \in 1..Len(Invoked) :
               /\ Invoked[k].buffer = <<OldArray[k]>>
               /\ Invoked[k].at = <<k - 1 - Accepted(k - 1)>>
               /\ k > 1 =>
                      Invoked[k].at[1] =
                          IF ProcessEvent(arg.Function, Invoked[k - 1].buffer)
                              THEN Invoked[k - 1].at[1]
                              ELSE Invoked[k - 1].at[1] + 1
        /\ i = Len(Invoked) - Accepted(Len(Invoked))
        /\ outcome = "returned" => Len(Invoked) = Num(OldArray)

C26_Witness ==
    /\ Returned("RemoveIf")
    /\ arg.Function = "IsZero"
    /\ OldArray = <<0, 0, 1>>
    /\ TargetArray = <<1>>
    /\ Len(Invoked) = 3

\* a second witness of C26: the middle of a pass, after a removal at 0
C26_LoopWitness ==
    /\ pc = "RemoveIf"
    /\ Len(Invoked) = 2
    /\ Invoked[1].at = <<0>>
    /\ Invoked[2].at = <<0>>

\* C27: a reference made by the copy (or move) constructor owns a buffer
\* of its own that holds the bytes the source had when the copy was made;
\* the constructor leaves the array as it was; whatever is assigned to or
\* swapped between the elements afterwards, the copy keeps those bytes
\* until it is itself assigned to; and assigning to the copy leaves the
\* array as it was.
C27_CopyByValue ==
    Copies # <<>> =>
        LET copy == Copies[1]
        IN  /\ copy.ref.new_target_ptr # <<>>
            /\ copy.ref.target_ptr = INDEX_NONE
            /\ ~copy.assigned => Target(TargetArray, copy.ref) = copy.held
            /\ node = "copy constructor" =>
                   /\ TargetArray = OldArray
                   /\ copy.held = At(TargetArray, arg.a.target_ptr)
                   /\ Target(TargetArray, copy.ref)
                          = Target(TargetArray, arg.a)
            /\ (node = "operator=" /\ arg.a.new_target_ptr # <<>>) =>
                   /\ TargetArray = OldArray
                   /\ outcome = "returned" =>
                          Target(TargetArray, copy.ref)
                              = Target(TargetArray, arg.b)

\* the source of the copy was changed by a later assignment or swap and
\* the copy kept its bytes
C27_Witness ==
    /\ Copies # <<>>
    /\ ~Copies[1].assigned
    /\ node \in {"operator=", "swap"}
    /\ outcome = "returned"
    /\ At(TargetArray, Copies[1].from.target_ptr) # Copies[1].held
    /\ Target(TargetArray, Copies[1].ref) = Copies[1].held

\* the copy was assigned bytes other than its own and the array was left
\* alone
C27_AssignWitness ==
    /\ Copies # <<>>
    /\ node = "operator="
    /\ arg.a.new_target_ptr # <<>>
    /\ outcome = "returned"
    /\ Target(TargetArray, Copies[1].ref) # Target(TargetArray, arg.a)
    /\ TargetArray = OldArray

\* the move constructor was used
C27_MoveWitness ==
    /\ node = "copy constructor"
    /\ arg.moved
    /\ Copies # <<>>
    /\ Copies[1].held = 1

\* C28: the loop of RemoveIf ends. At the head of every turn the index is
\* between 0 and the length (so the --i after a removal gives -1 at the
\* lowest), and the elements still to test plus the tests made are the
\* elements the array had; a turn either steps the index over an element
\* it keeps, or removes one element and leaves the index where it is;
\* the loop is left with the index at the length, after no more tests
\* than the array had elements; and a loop that was entered is left.
C28_RemoveIfTerminates ==
    /\ [](pc = "RemoveIf" =>
              /\ 0 <= i
              /\ i - 1 >= 0 - 1
              /\ i <= Num(TargetArray)
              /\ (Num(TargetArray) - i) + Len(Invoked) = Num(OldArray))
    /\ [](Returned("RemoveIf") =>
              /\ i = Num(TargetArray)
              /\ Len(Invoked) <= Num(OldArray))
    /\ [][(pc = "RemoveIf" /\ pc' = "RemoveIf") =>
              \/ /\ i' = i + 1
                 /\ TargetArray' = TargetArray
              \/ /\ i' = i
                 /\ Num(TargetArray') = Num(TargetArray) - 1]_vars
    /\ (pc = "RemoveIf" ~> Returned("RemoveIf"))

\* a pass that kept one element and removed two, the first one at index 0
C28_Witness ==
    /\ Returned("RemoveIf")
    /\ arg.Function = "IsEven"
    /\ OldArray = <<0, 1, 0>>
    /\ TargetArray = <<1>>
    /\ i = 1
    /\ Len(Invoked) = 3

\* RandomSample was called with 0 <= NumOfSamples <= Num
SampleInRange ==
    /\ node = "RandomSample"
    /\ 0 <= arg.NumOfSamples
    /\ arg.NumOfSamples <= Num(TargetArray)

\* the samples asked for less the samples picked
SamplesToPick == arg.NumOfSamples - Len(Samples)

\* C29: in RandomSample with 0 <= NumOfSamples <= Num, at the head of
\* every turn of the loop, and when the loop is left, rest_samples is the
\* samples asked for less the samples picked, which is not negative and
\* not more than the elements still to visit; in a turn where the two are
\* equal the element goes to Samples; rest_samples changes only when it
\* is above 0, and then to one less; and it is 0 when the node returns.
C29_RestSamples ==
    /\ []((SampleInRange /\ pc = "RandomSample") =>
              /\ SamplesToPick >= 0
              /\ rest_samples = ToUnsigned(SamplesToPick)
              /\ SamplesToPick <= end(TargetArray) - it
              /\ ~UnsignedLess(ToUnsigned(end(TargetArray) - it),
                               rest_samples))
    /\ []((SampleInRange /\ Returned("RandomSample")
               /\ Num(TargetArray) > 0) =>
              rest_samples = ToUnsigned(0))
    /\ [][(SampleInRange /\ pc = "RandomSample" /\ it < end(TargetArray)) =>
              /\ rest_samples = ToUnsigned(end(TargetArray) - it) =>
                     /\ Samples' = Append(Samples, At(TargetArray, it))
                     /\ Others' = Others
              /\ rest_samples' # rest_samples =>
                     /\ UnsignedLess(ToUnsigned(0), rest_samples)
                     /\ rest_samples' = ToUnsigned(SamplesToPick - 1)]_vars

\* one sample of three elements: the first two went to Others, so the last
\* one had to be taken
C29_Witness ==
    /\ Returned("RandomSample")
    /\ Num(TargetArray) = 3
    /\ arg.NumOfSamples = 1
    /\ OthersFrom = <<0, 1>>
    /\ SamplesFrom = <<2>>
    /\ rest_samples = ToUnsigned(0)

\* a second witness of C29: as many samples as elements
C29_AllWitness ==
    /\ Returned("RandomSample")
    /\ Num(TargetArray) = 2
    /\ arg.NumOfSamples = 2
    /\ SamplesFrom = <<0, 1>>
    /\ rest_samples = ToUnsigned(0)

\* the positions of the elements of a that are cmp-before no element of a
Maximal(a, cmp) ==
    {p \in 1..Len(a) :
        \A q \in 1..Len(a) : ~ProcessEvent(cmp, <<a[p], a[q]>>)}

\* the positions of the elements of a that no element of a is cmp-before
Minimal(a, cmp) ==
    {p \in 1..Len(a) :
        \A q \in 1..Len(a) : ~ProcessEvent(cmp, <<a[q], a[p]>>)}

\* C30: on an array that is not empty MaxElementIndex returns the least
\* index of a maximal element and MinElementIndex the least index of a
\* minimal element, Max and Min return the element at that index, and
\* the scan calls the comparison Num - 1 times: the k-th call compares
\* the element at index k with the first extreme of the elements before
\* it, the extreme on the left for a maximum and on the right for a
\* minimum.
C30_FirstOfEquivalentExtremes ==
    (node \in {"Max", "MaxElementIndex", "Min", "MinElementIndex"}
        /\ outcome = "returned" /\ Num(TargetArray) > 0) =>
        LET cmp == arg.Function
            max_index == Least(Maximal(TargetArray, cmp)) - 1
            min_index == Least(Minimal(TargetArray, cmp)) - 1
        IN  /\ Len(Invoked) = Num(TargetArray) - 1
            /\ node = "MaxElementIndex" => ReturnValue = <<max_index>>
            /\ node = "Max" => OutValue = <<At(TargetArray, max_index)>>
            /\ node = "MinElementIndex" => ReturnValue = <<min_index>>
            /\ node = "Min" => OutValue = <<At(TargetArray, min_index)>>
            /\ \A k \in 1..Len(Invoked) :
                   LET before == SubSeq(TargetArray, 1, k)
                   IN  IF node \in {"Max", "MaxElementIndex"}
                           THEN Invoked[k].at
                                    = <<Least(Maximal(before, cmp)) - 1, k>>
                           ELSE Invoked[k].at
                                    = <<k, Least(Minimal(before, cmp)) - 1>>

\* 4 and 5 are equivalent under HalfLess and maximal: the index of 4
C30_Witness ==
    /\ Returned("MaxElementIndex")
    /\ arg.Function = "HalfLess"
    /\ TargetArray = <<3, 1, 1, 4, 5>>
    /\ ReturnValue = <<3>>
    /\ Len(Invoked) = 4

\* 0 and 1 are equivalent under HalfLess: Max returns the first of them
C30_MaxWitness ==
    /\ Returned("Max")
    /\ arg.Function = "HalfLess"
    /\ TargetArray = <<0, 1>>
    /\ OutValue = <<0>>

\* the two 1 are minimal: MinElementIndex returns the index of the first
C30_MinWitness ==
    /\ Returned("MinElementIndex")
    /\ arg.Function = "Less"
    /\ TargetArray = <<3, 1, 1, 4, 5>>
    /\ ReturnValue = <<1>>

\* Min returns the first of two equivalent elements
C30_MinValueWitness ==
    /\ Returned("Min")
    /\ arg.Function = "HalfLess"
    /\ TargetArray = <<1, 0>>
    /\ OutValue = <<1>>

=============================================================================
